---- MODULE Spec2Model ----
(***************************************************************************)
(* Model of the market-volatility monitoring engine of src/backend/index.js *)
(* (price history, tiered alert registry, alert push to WebSocket clients,  *)
(* rate-limited fetcher).                                                    *)
(*                                                                           *)
(* Times are JavaScript millisecond timestamps.  Prices are carried as the   *)
(* integer number of cents c that the code divides by 100; the double        *)
(* c / 100 is a one-to-one image of c, and every computation the code does   *)
(* on prices (line 153, 168) is done below on IEEE-754 doubles, bit for bit. *)
(*                                                                           *)
(* The fields of a record are written in the order in which the model        *)
(* checker keeps them, which is not the order of the object literals of the  *)
(* code; a record is the same value in any order of its fields.              *)
(***************************************************************************)
EXTENDS Integers, Sequences, FiniteSets, TLC

(***************************************************************************)
(* Bounds of the model (not program constants).                              *)
(***************************************************************************)
MaxTicks == 3
MaxClients == 1
MaxCandles == 1
MaxCalls == 3
MaxSubscribers == 2
MaxCycles == 2

(***************************************************************************)
(* Program constants.                                                        *)
(***************************************************************************)
WINDOW_MS == 12 * 60 * 60 * 1000
MIN_REQUEST_INTERVAL == 150
RETRY_WAIT_MS == 3000
WS_OPEN == 1
WS_CLOSING == WS_OPEN + 1

(***************************************************************************)
(* IEEE-754 binary64 arithmetic, as JavaScript's Number does it.             *)
(* A natural number below 2^72 is a triple <<hi, mid, lo>> of 24-bit limbs.  *)
(* A double is [neg, m, e] with value (-1)^neg * m * 2^e, where m is a       *)
(* 53-bit natural (2^52 <= m < 2^53), or m = 0 for zero.  Results are        *)
(* rounded to nearest, ties to even.  All values met here are normal.        *)
(***************************************************************************)
B24 == 2^24

BNorm(h, m, l) ==
    LET m1 == m + (l \div B24)
    IN  <<h + (m1 \div B24), m1 % B24, l % B24>>

BZero == <<0, 0, 0>>

BOne == <<0, 0, 1>>

BAdd(a, b) == BNorm(a[1] + b[1], a[2] + b[2], a[3] + b[3])

BSub(a, b) == BNorm(a[1] - b[1], a[2] - b[2], a[3] - b[3])

BMulSmall(a, k) == BNorm(k * a[1], k * a[2], k * a[3])

BLess(a, b) ==
    \/ a[1] < b[1]
    \/ a[1] = b[1] /\ a[2] < b[2]
    \/ a[1] = b[1] /\ a[2] = b[2] /\ a[3] < b[3]

\* F applied to the value of v: v is evaluated once, before F is
Ap(F(_), v) == CHOOSE t \in {F(u) : u \in {v}} : TRUE

\* p = <<a, n>>: a * 2^n
RECURSIVE BShlV(_)
BShlV(p) == IF p[2] = 0 THEN p[1] ELSE Ap(BShlV, <<BAdd(p[1], p[1]), p[2] - 1>>)

BShl(a, n) == Ap(BShlV, <<a, n>>)

Two52 == BShl(BOne, 52)

Two53 == BShl(BOne, 53)

\* s = <<N, D, k>>: N / D = (N' / D') * 2^(k' - k) with D' <= N' < 2 D'
RECURSIVE NormRatioV(_)
NormRatioV(s) ==
    IF BLess(s[1], s[2]) THEN Ap(NormRatioV, <<BAdd(s[1], s[1]), s[2], s[3] - 1>>)
    ELSE IF ~BLess(s[1], BAdd(s[2], s[2]))
    THEN Ap(NormRatioV, <<s[1], BAdd(s[2], s[2]), s[3] + 1>>)
    ELSE s

\* one step of binary long division on <<quotient, remainder, divisor>>
DivStep(s) ==
    LET r2 == BAdd(s[2], s[2])
    IN  IF BLess(r2, s[3])
        THEN <<BAdd(s[1], s[1]), r2, s[3]>>
        ELSE <<BAdd(BAdd(s[1], s[1]), BOne), BSub(r2, s[3]), s[3]>>

Div2(s) == Ap(DivStep, Ap(DivStep, s))

Div4(s) == Ap(Div2, Ap(Div2, s))

Div16(s) == Ap(Div4, Ap(Div4, Ap(Div4, Ap(Div4, s))))

Div52(s) == Ap(Div4, Ap(Div16, Ap(Div16, Ap(Div16, s))))

\* p = <<neg, m, e>>: the double of a rounded-up mantissa, renormalised
Packed(p) ==
    IF p[2] = Two53 THEN [m |-> Two52, neg |-> p[1], e |-> p[3] + 1]
    ELSE [m |-> p[2], neg |-> p[1], e |-> p[3]]

\* p = <<neg, qr, gr, e>>: qr the 53 quotient bits and remainder, gr the guard
\* bit and the remainder after it; round to nearest, ties to even
Rounded(p) ==
    LET up == p[3][1] = BOne /\ (p[3][2] # BZero \/ p[2][1][3] % 2 = 1)
    IN  Ap(Packed, <<p[1], IF up THEN BAdd(p[2][1], BOne) ELSE p[2][1], p[4]>>)

\* p = <<neg, qr, e>>
Guarded(p) == Ap(Rounded, <<p[1], p[2], DivStep(<<BZero, p[2][2], p[2][3]>>), p[3]>>)

\* a = <<neg, <<N, D, k>>>> with D <= N < 2 D: the double nearest to
\* (-1)^neg * (N / D) * 2^k
RoundQuotient(a) ==
    Ap(Guarded, <<a[1], Div52(<<BOne, BSub(a[2][1], a[2][2]), a[2][2]>>), a[2][3] - 52>>)

\* the double nearest to (-1)^neg * (N / D) * 2^e0, for naturals N, D > 0
RoundRatio(neg, N, D, e0) == Ap(RoundQuotient, <<neg, Ap(NormRatioV, <<N, D, e0>>)>>)

FZero == [m |-> BZero, neg |-> FALSE, e |-> 0]

\* the double n / d of two small naturals (also: the decimal literal n/d)
FRatio(n, d) ==
    IF n = 0 THEN FZero
    ELSE RoundRatio(FALSE, BNorm(0, 0, n), BNorm(0, 0, d), 0)

\* p = <<A, B, e>>, A # B: the double nearest to (A - B) * 2^e
FSubAligned(p) ==
    IF BLess(p[1], p[2])
    THEN RoundRatio(TRUE, BSub(p[2], p[1]), Two52, p[3] + 52)
    ELSE RoundRatio(FALSE, BSub(p[1], p[2]), Two52, p[3] + 52)

\* p = <<a, b>>: a - b
FSubV(p) ==
    IF p[1] = p[2] THEN FZero
    ELSE IF p[2].m = BZero THEN p[1]
    ELSE IF p[1].m = BZero THEN [p[2] EXCEPT !.neg = ~p[2].neg]
    ELSE LET emin == IF p[1].e < p[2].e THEN p[1].e ELSE p[2].e
         IN  Ap(FSubAligned, <<BShl(p[1].m, p[1].e - emin),
                               BShl(p[2].m, p[2].e - emin), emin>>)

FSub(a, b) == Ap(FSubV, <<a, b>>)

\* p = <<a, b>>: a / b, b # 0
FDivV(p) ==
    IF p[1].m = BZero THEN FZero
    ELSE RoundRatio(p[1].neg # p[2].neg, p[1].m, p[2].m, p[1].e - p[2].e)

FDiv(a, b) == Ap(FDivV, <<a, b>>)

\* p = <<a, k>>: a * k for a natural 0 < k < 128
FMulSmallV(p) ==
    IF p[1].m = BZero THEN FZero
    ELSE RoundRatio(p[1].neg, BMulSmall(p[1].m, p[2]), Two52, p[1].e + 52)

FMulSmall(a, k) == Ap(FMulSmallV, <<a, k>>)

FAbs(a) == [a EXCEPT !.neg = FALSE]

\* p = <<a, b>>: a >= b for a, b >= 0
FGeqV(p) ==
    IF p[2].m = BZero THEN TRUE
    ELSE IF p[1].m = BZero THEN FALSE
    ELSE p[1].e > p[2].e \/ (p[1].e = p[2].e /\ ~BLess(p[1].m, p[2].m))

FGeq(a, b) == Ap(FGeqV, <<a, b>>)

\* a > 0
FPos(a) == ~a.neg /\ a.m # BZero

(***************************************************************************)
(* Inputs of the model.                                                      *)
(***************************************************************************)
Instruments == {"A", "B"}

\* the clock moves in steps of half a window; the poll interval (30 s) and
\* the cleanup interval (1 h) elapse within every step
TickMs == WINDOW_MS \div 2

\* quoted prices (cents) the market listing and the candlesticks may carry
Cents == {40, 43, 50}

\* prior prices a listing may carry (0: none)
PrevCents == {0, 40}

\* candlestick fields the history endpoint may return; end_period_ts is in
\* seconds, given here as its offset from the time of the request (the
\* periods asked for end before it)
CandleOpens == {0, 40}

CandleCloses == {43}

CandleOffsets == {0 - TickMs}

\* the prices the engine can meet
EngineCents == (Cents \cup PrevCents \cup CandleOpens \cup CandleCloses) \ {0}

\* the prices the classification is exercised with on its own
ClassifyCents == {20, 21, 22, 24, 40, 42, 44, 48, 50, 60}

\* the instruments, prices and listings the service is exercised with when
\* several alerts meet in one tier and in one cycle: at start-up "A" is at 61
\* from 50, "B" at 40 and "C" at 80 with no prior price; "A" settles before
\* the first poll cycle, where "B" is at 26, untraded or unpriced and "C" is
\* at 97
HubInstruments == {"A", "B", "C"}

HubCents == {26, 40, 43, 50, 61, 80, 97}

Tiers == {20, 10, 5}

BootTime == 2 * WINDOW_MS

EndTime == BootTime + MaxTicks * TickMs

(***************************************************************************)
(* Prices and classification (checkVolatility, bootstrapHistoricalData).     *)
(***************************************************************************)
\* a || b of JavaScript on numbers (0 is falsy)
OrElse(a, b) == IF a # 0 THEN a ELSE b

T20 == FRatio(20, 100)

T10 == FRatio(10, 100)

T05 == FRatio(5, 100)

\* a variant that tests the lowest threshold first
TierOfAbsLowestFirst(absChange) ==
    IF FGeq(absChange, T05) THEN 5
    ELSE IF FGeq(absChange, T10) THEN 10
    ELSE IF FGeq(absChange, T20) THEN 20
    ELSE 0

\* the tier (20, 10, 5) of a price change, 0 for null
TierOfAbs(absChange) ==
    IF FGeq(absChange, T20) THEN 20
    ELSE IF FGeq(absChange, T10) THEN 10
    ELSE IF FGeq(absChange, T05) THEN 5
    ELSE 0

TierOfChange(pc) == Ap(TierOfAbs, FAbs(pc))

\* what lines 153-173 compute from priceChange
Computed(priceChange) ==
    [priceChange |-> priceChange,
     percent |-> FMulSmall(priceChange, 100),
     tier |-> TierOfChange(priceChange),
     direction |-> IF FPos(priceChange) THEN "up" ELSE "down"]

\* (currentPrice - oldestPrice) / oldestPrice and what is computed from it,
\* for currentPrice = c / 100 and oldestPrice = r / 100
Arithmetic(cents) ==
    [c \in cents, r \in cents |->
        Ap(Computed, FDiv(FSub(FRatio(c, 100), FRatio(r, 100)), FRatio(r, 100)))]

(***************************************************************************)
(* State.                                                                    *)
(***************************************************************************)
VARIABLES
    arith,            \* the arithmetic on the prices met, done once: <<c, r>> -> Computed
    now,              \* Date.now()
    priceHistory,     \* ticker -> series of [price, timestamp]; <<>> when the Map has no key
    triggeredAlerts,  \* tier -> Map ticker -> alert, as its entries in insertion order
    wsClients,        \* the Set of connections
    readyState,       \* connection slot -> 0 (no connection), WS_OPEN, WS_CLOSING
    sent,             \* connection -> the messages the last handler handed to ws.send, in order
    phase,            \* "fetch": initial fetch pending, "boot": bootstrap loop, "run": timers set
    bootQueue,        \* the markets of the initial fetch not yet bootstrapped
    pollDue,          \* the poll interval has elapsed: pollMarkets has been called and
                      \* awaits its listing
    cleanupDue,       \* the cleanup interval has elapsed since the last cleanup
    lastCheck,        \* (history) ticker -> the tier its latest classification found,
                      \* 0 for none, -1 when it was never classified
    broadcast,           \* (history) the alerts the last handler gave to broadcastAlert, in order
    fetched,          \* (history) the replies to the page requests of the last handler's
                      \* fetchActiveMarkets, in order
    served,           \* the body of the response when the last handler was GET /api/alerts
    firstMessage,     \* (history) connection -> the type of the first message sent on it
    fetchedCandles,   \* (history) the reply to the candlestick request of the last handler,
                      \* <<>> when it made none
    missed,           \* (history) a poll cycle has failed to fetch the first page of its listing
    clock,            \* Date.now() as rateLimitedFetch reads it
    lastRequestTime,  \* the module variable of rateLimitedFetch
    pc,               \* caller -> where its call of rateLimitedFetch stands
    wake,             \* caller -> the time its pending setTimeout fires
    calls,            \* (history) the times of the outbound calls of fetch, in order
    tries,            \* (history) caller -> the attempts of its call in progress, in order
    returned,         \* (history) the call the last step completed and its result
    quote,            \* <<current, reference>>: a pair of prices to classify, in cents
    verdict           \* what the classification code made of quote

engineVars == <<now, priceHistory, triggeredAlerts, wsClients, readyState, sent,
                phase, bootQueue, pollDue, cleanupDue, lastCheck,
                broadcast, fetched, served, firstMessage, fetchedCandles, missed>>

fetcherVars == <<clock, lastRequestTime, pc, wake, calls, tries, returned>>

classifyVars == <<quote, verdict>>

vars == <<arith, engineVars, fetcherVars, classifyVars>>

PriceChange(cur, old) == arith[cur, old].priceChange

\* priceChange * 100
PercentChange(cur, old) == arith[cur, old].percent

Tier(cur, old) == arith[cur, old].tier

Direction(cur, old) == arith[cur, old].direction

\* new Date(ms).toISOString(): the UTC date and time of day to the millisecond
\* (the calendar date is kept as the day number)
ToISOString(ms) ==
    [day |-> ms \div 86400000,
     hh |-> (ms % 86400000) \div 3600000,
     mm |-> (ms % 3600000) \div 60000,
     ss |-> (ms % 60000) \div 1000,
     sss |-> ms % 1000]

\* new Date(iso).getTime()
GetTime(iso) ==
    (((iso.day * 24 + iso.hh) * 60 + iso.mm) * 60 + iso.ss) * 1000 + iso.sss

NoAlert == [tier |-> 0]

RECURSIVE SeqMin(_)
SeqMin(s) ==
    IF Len(s) = 1 THEN s[1]
    ELSE LET m == SeqMin(Tail(s)) IN IF s[1] < m THEN s[1] ELSE m

RECURSIVE SeqMax(_)
SeqMax(s) ==
    IF Len(s) = 1 THEN s[1]
    ELSE LET m == SeqMax(Tail(s)) IN IF s[1] > m THEN s[1] ELSE m

Prices(h) == [i \in 1..Len(h) |-> h[i].price]

InWindow(h, cutoff) == h.timestamp >= cutoff

\* a variant that appends and never trims
RecordUntrimmed(history, currentPrice, t) ==
    Append(history, [price |-> currentPrice, timestamp |-> t])

\* history.push(...); filtered = history.filter(h => h.timestamp >= cutoff)
Record(history, currentPrice, t) ==
    LET cutoff == t - WINDOW_MS
    IN  SelectSeq(Append(history, [price |-> currentPrice, timestamp |-> t]),
                  LAMBDA h : InWindow(h, cutoff))

\* Infinity, the quotient of a positive number and 0
FInfinity == [m |-> 0, neg |-> FALSE, e |-> 1024]

\* a variant without the test of oldestPrice: the change against 0 is Infinity
ClassifyUnguarded(ticker, currentPrice, filtered, t) ==
    IF Len(filtered) < 2 THEN NoAlert
    ELSE LET oldestPrice == filtered[1].price
         IN  IF oldestPrice = 0
             THEN [priceChange |-> FInfinity,
                   tier |-> 20,
                   direction |-> "up",
                   timestamp |-> ToISOString(t),
                   currentPrice |-> currentPrice,
                   ticker |-> ticker,
                   oldPrice |-> oldestPrice,
                   minPrice |-> SeqMin(Prices(filtered)),
                   maxPrice |-> SeqMax(Prices(filtered))]
             ELSE IF Tier(currentPrice, oldestPrice) = 0 THEN NoAlert
             ELSE [priceChange |-> PercentChange(currentPrice, oldestPrice),
                   tier |-> Tier(currentPrice, oldestPrice),
                   direction |-> Direction(currentPrice, oldestPrice),
                   timestamp |-> ToISOString(t),
                   currentPrice |-> currentPrice,
                   ticker |-> ticker,
                   oldPrice |-> oldestPrice,
                   minPrice |-> SeqMin(Prices(filtered)),
                   maxPrice |-> SeqMax(Prices(filtered))]

\* a variant that takes the extremes of the oldest and the current price only
ClassifyEnds(ticker, currentPrice, filtered, t) ==
    IF Len(filtered) < 2 THEN NoAlert
    ELSE LET oldestPrice == filtered[1].price
         IN  IF oldestPrice = 0 THEN NoAlert
             ELSE IF Tier(currentPrice, oldestPrice) = 0 THEN NoAlert
             ELSE [priceChange |-> PercentChange(currentPrice, oldestPrice),
                   tier |-> Tier(currentPrice, oldestPrice),
                   direction |-> Direction(currentPrice, oldestPrice),
                   timestamp |-> ToISOString(t),
                   currentPrice |-> currentPrice,
                   ticker |-> ticker,
                   oldPrice |-> oldestPrice,
                   minPrice |-> IF oldestPrice < currentPrice THEN oldestPrice ELSE currentPrice,
                   maxPrice |-> IF oldestPrice > currentPrice THEN oldestPrice ELSE currentPrice]

\* the value checkVolatility returns, from the filtered history
Classify(ticker, currentPrice, filtered, t) ==
    IF Len(filtered) < 2 THEN NoAlert
    ELSE LET oldestPrice == filtered[1].price
         IN  IF oldestPrice = 0 THEN NoAlert
             ELSE IF Tier(currentPrice, oldestPrice) = 0 THEN NoAlert
             ELSE [priceChange |-> PercentChange(currentPrice, oldestPrice),
                   tier |-> Tier(currentPrice, oldestPrice),
                   direction |-> Direction(currentPrice, oldestPrice),
                   timestamp |-> ToISOString(t),
                   currentPrice |-> currentPrice,
                   ticker |-> ticker,
                   oldPrice |-> oldestPrice,
                   minPrice |-> SeqMin(Prices(filtered)),
                   maxPrice |-> SeqMax(Prices(filtered))]

\* a variant that classifies the series before it is trimmed
CheckVolatilityUntrimmed(history, ticker, currentPrice, t) ==
    LET pushed == Append(history, [price |-> currentPrice, timestamp |-> t])
    IN  [history |-> Record(history, currentPrice, t),
         alert |-> Classify(ticker, currentPrice, pushed, t)]

\* checkVolatility(ticker, currentPrice, title) at time t on the stored series
CheckVolatility(history, ticker, currentPrice, t) ==
    LET filtered == Record(history, currentPrice, t)
    IN  [history |-> filtered, alert |-> Classify(ticker, currentPrice, filtered, t)]

\* tierMap.has(ticker); a Map is the sequence of its entries in insertion order
Has(tierMap, ticker) == \E i \in 1..Len(tierMap) : tierMap[i].key = ticker

Get(tierMap, ticker) == (CHOOSE i \in 1..Len(tierMap) : tierMap[i].key = ticker)

\* tierMap.set(ticker, alert) for a ticker the map does not hold
MapSet(tierMap, ticker, alert) == Append(tierMap, [key |-> ticker, value |-> alert])


\* connection slots: as many connections as there are slots exist at a time
Clients == DOMAIN readyState

\* HTTP statuses of the exchange: success, rate limited, server error
Statuses == {200, 429, 500}

\* what fetch settles with: a Response (ok when the status is 2xx), or a
\* rejection when the network fails
Reply(status) == [status |-> status, thrown |-> FALSE, ok |-> status \in 200..299]

NetworkError == [status |-> 0, thrown |-> TRUE, ok |-> FALSE]

Replies == {Reply(status) : status \in Statuses} \cup {NetworkError}

\* response.status === 429
RateLimited(reply) == ~reply.thrown /\ reply.status = 429

\* line 93: m.volume > 0 && m.last_price > 0
Active(m) == m.volume > 0 /\ m.last_price > 0

\* a variant that keeps every market that has traded, priced or not
ActiveMarketsTraded(listing) ==
    SelectSeq(listing, LAMBDA m : m.volume > 0)

\* the active markets of one listing response
ActiveMarkets(listing) ==
    SelectSeq(listing, LAMBDA m : Active(m))

\* the reply to one page request of fetchActiveMarkets: what rateLimitedFetch
\* settled with and, of a response that is ok, the body (data.markets || [],
\* data.cursor as whether it names a next page)
PageOf(listing, cursor) == [reply |-> Reply(200), cursor |-> cursor, markets |-> listing]

PageFailed(reply) == [reply |-> reply, cursor |-> FALSE, markets |-> <<>>]

\* line 101: pages >= 10 || markets.length >= 1000
PAGE_LIMIT == 10

MARKET_LIMIT == 1000

\* lines 75-103: the pages are read until one fails, names no next page or a
\* limit is reached; lines 105-108: what was gathered so far is returned
RECURSIVE FetchPages(_, _, _)
FetchPages(markets, pages, replies) ==
    IF replies = <<>> THEN markets
    ELSE IF Head(replies).reply.thrown \/ ~Head(replies).reply.ok THEN markets
    ELSE LET data == Head(replies)
             gathered == markets \o ActiveMarkets(data.markets)
         IN  IF pages + 1 >= PAGE_LIMIT \/ Len(gathered) >= MARKET_LIMIT \/ ~data.cursor
             THEN gathered
             ELSE FetchPages(gathered, pages + 1, Tail(replies))

\* a variant whose loop has no limit of pages
RECURSIVE PagesReadUncapped(_, _, _)
PagesReadUncapped(markets, pages, replies) ==
    IF replies = <<>> THEN <<>>
    ELSE IF Head(replies).reply.thrown \/ ~Head(replies).reply.ok THEN <<Head(replies)>>
    ELSE LET data == Head(replies)
             gathered == markets \o ActiveMarkets(data.markets)
         IN  IF Len(gathered) >= MARKET_LIMIT \/ ~data.cursor
             THEN <<data>>
             ELSE <<data>> \o PagesReadUncapped(gathered, pages + 1, Tail(replies))

\* lines 75-103: the page requests the loop makes when the source would
\* answer its requests with replies, one after the other: the replies it
\* gets, up to the one after which the loop ends
RECURSIVE PagesRead(_, _, _)
PagesRead(markets, pages, replies) ==
    IF replies = <<>> THEN <<>>
    ELSE IF Head(replies).reply.thrown \/ ~Head(replies).reply.ok THEN <<Head(replies)>>
    ELSE LET data == Head(replies)
             gathered == markets \o ActiveMarkets(data.markets)
         IN  IF pages + 1 >= PAGE_LIMIT \/ Len(gathered) >= MARKET_LIMIT \/ ~data.cursor
             THEN <<data>>
             ELSE <<data>> \o PagesRead(gathered, pages + 1, Tail(replies))

\* fetchActiveMarkets(), given the replies its page requests get
FetchActiveMarkets(replies) == FetchPages(<<>>, 0, replies)

\* <<volume, last_price>> pairs a listing may carry for a ticker: "A" moves
\* between the quoted prices and may be unpriced or untraded, "B" is steady
QuotesOf(i) ==
    IF i = "A" THEN {<<1, p>> : p \in {0} \cup Cents} \cup {<<0, 40>>}
    ELSE {<<1, 50>>}

\* prior prices the listings may carry for each ticker: at start-up "A" has
\* one or none and "B" has one; pollMarkets does not read them
StartupPriors == [i \in Instruments |-> IF i = "A" THEN PrevCents ELSE PrevCents \ {0}]

PollPriors == [i \in Instruments |-> {0}]

\* listing entries the exchange may return for a ticker
ListingsOf(i, priors) ==
    {[ticker |-> i, volume |-> q[1], last_price |-> q[2], yes_ask |-> 43,
      previous_price |-> p, previous_yes_bid |-> 0] :
        q \in QuotesOf(i), p \in priors[i]}

\* listing responses (status=open): any of the open instruments, each at
\* most once, in any order
Listings(open, priors) ==
    {<<>>}
    \cup UNION {{<<m>> : m \in ListingsOf(i, priors)} : i \in open}
    \cup UNION {{<<m, n>> : m \in ListingsOf(i, priors), n \in ListingsOf(j, priors)} :
                    <<i, j>> \in {p \in open \X open : p[1] # p[2]}}

\* "B" is open at start-up and settles before the first poll cycle
OpenAtPoll == {"A"}

\* JSON.stringify({ type, data }): the message, by the value it encodes
Message(type, data) == [data |-> data, type |-> type]

\* a variant that sends to every client of the Set, open or not
BroadcastAlertToAll(sentMap, alert) ==
    [c \in Clients |->
        IF c \in wsClients
        THEN Append(sentMap[c], Message("alert", alert))
        ELSE sentMap[c]]

\* a variant that puts the message before those already sent
BroadcastAlertNewestFirst(sentMap, alert) ==
    [c \in Clients |->
        IF c \in wsClients /\ readyState[c] = WS_OPEN
        THEN <<Message("alert", alert)>> \o sentMap[c]
        ELSE sentMap[c]]

\* a variant whose loop over the clients ends at the first that is not open
BroadcastAlertUntilClosed(sentMap, alert) ==
    [c \in Clients |->
        IF /\ c \in wsClients
           /\ \A d \in wsClients : d <= c => readyState[d] = WS_OPEN
        THEN Append(sentMap[c], Message("alert", alert))
        ELSE sentMap[c]]

\* broadcastAlert(alert): send to every client whose readyState is 1
BroadcastAlert(sentMap, alert) ==
    [c \in Clients |->
        IF c \in wsClients /\ readyState[c] = WS_OPEN
        THEN Append(sentMap[c], Message("alert", alert))
        ELSE sentMap[c]]

\* a variant without the has() test: the stored alert is replaced and pushed
RegisterOverwrite(st, ticker, alert) ==
    IF alert = NoAlert THEN st
    ELSE IF Has(st.alerts[alert.tier], ticker)
    THEN LET old == st.alerts[alert.tier]
         IN  [st EXCEPT !.alerts[alert.tier] =
                            [k \in 1..Len(old) |->
                                IF old[k].key = ticker
                                THEN [key |-> ticker, value |-> alert]
                                ELSE old[k]],
                        !.sent = BroadcastAlert(@, alert),
                    !.broadcast = Append(@, alert)]
    ELSE [st EXCEPT !.alerts[alert.tier] = MapSet(@, ticker, alert),
                    !.sent = BroadcastAlert(@, alert),
                    !.broadcast = Append(@, alert)]

\* a variant that drops the ticker from every tier when no tier is reached
RegisterOrClear(st, ticker, alert) ==
    IF alert = NoAlert
    THEN [st EXCEPT !.alerts =
                        [t \in Tiers |->
                            SelectSeq(st.alerts[t], LAMBDA en : en.key # ticker)]]
    ELSE IF Has(st.alerts[alert.tier], ticker) THEN st
    ELSE [st EXCEPT !.alerts[alert.tier] = MapSet(@, ticker, alert),
                    !.sent = BroadcastAlert(@, alert),
                    !.broadcast = Append(@, alert)]

\* a variant that registers the alert in every tier whose threshold is met
RegisterInTier(st, ticker, alert, t) ==
    IF t > alert.tier \/ Has(st.alerts[t], ticker) THEN st
    ELSE [st EXCEPT !.alerts[t] = MapSet(@, ticker, [alert EXCEPT !.tier = t]),
                    !.sent = BroadcastAlert(@, [alert EXCEPT !.tier = t]),
                    !.broadcast = Append(@, [alert EXCEPT !.tier = t])]

RegisterAllMet(st, ticker, alert) ==
    IF alert = NoAlert THEN st
    ELSE LET s20 == RegisterInTier(st, ticker, alert, 20)
             s10 == RegisterInTier(s20, ticker, alert, 10)
         IN  RegisterInTier(s10, ticker, alert, 5)

\* a variant that keeps a ticker in one tier only: registering it in a tier
\* drops it from the others
RegisterExclusive(st, ticker, alert) ==
    IF alert = NoAlert \/ Has(st.alerts[alert.tier], ticker) THEN st
    ELSE [st EXCEPT !.alerts =
                        [t \in Tiers |->
                            IF t = alert.tier THEN MapSet(st.alerts[t], ticker, alert)
                            ELSE SelectSeq(st.alerts[t], LAMBDA en : en.key # ticker)],
                    !.sent = BroadcastAlert(@, alert),
                    !.broadcast = Append(@, alert)]

\* a variant that takes an entry older than the window for absent: the alert
\* replaces it and is pushed
RegisterOrRenew(st, ticker, alert) ==
    IF alert = NoAlert THEN st
    ELSE IF /\ Has(st.alerts[alert.tier], ticker)
            /\ GetTime(st.alerts[alert.tier][Get(st.alerts[alert.tier], ticker)].value.timestamp)
                   >= now - WINDOW_MS
    THEN st
    ELSE [st EXCEPT !.alerts[alert.tier] =
                        MapSet(SelectSeq(@, LAMBDA en : en.key # ticker), ticker, alert),
                    !.sent = BroadcastAlert(@, alert),
                    !.broadcast = Append(@, alert)]

\* lines 296-306: register and push the alert unless the tier holds the ticker
Register(st, ticker, alert) ==
    IF alert = NoAlert \/ Has(st.alerts[alert.tier], ticker)
    THEN st
    ELSE [st EXCEPT !.alerts[alert.tier] = MapSet(@, ticker, alert),
                    !.sent = BroadcastAlert(@, alert),
                    !.broadcast = Append(@, alert)]

\* the body of pollMarkets' loop for one market
PollOne(st, market) ==
    LET currentPrice == OrElse(market.last_price, market.yes_ask)
    IN  IF currentPrice = 0 THEN st
        ELSE LET r == CheckVolatility(st.history[market.ticker], market.ticker,
                                      currentPrice, now)
                 st1 == [st EXCEPT !.history[market.ticker] = r.history,
                                   !.found[market.ticker] = r.alert.tier]
             IN  Register(st1, market.ticker, r.alert)

RECURSIVE PollLoop(_, _)
PollLoop(st, markets) ==
    IF markets = <<>> THEN st
    ELSE PollLoop(Ap(LAMBDA s : PollOne(s, Head(markets)), st), Tail(markets))

NoneSent == [c \in Clients |-> <<>>]

LoopState ==
    [sent |-> NoneSent, broadcast |-> <<>>, history |-> priceHistory,
     alerts |-> triggeredAlerts, found |-> lastCheck]

NoResponse == [status |-> 0, body |-> <<>>]

\* the first message of each connection, after a handler that sent sentMap
FirstMessage(sentMap) ==
    [c \in Clients |->
        IF firstMessage[c] = "none" /\ sentMap[c] # <<>> THEN sentMap[c][1].type
        ELSE firstMessage[c]]

\* the handler fetches no listing, broadcasts nothing and answers no request
NoTrace ==
    /\ broadcast' = <<>>
    /\ fetched' = <<>>
    /\ served' = NoResponse
    /\ fetchedCandles' = <<>>
    /\ missed' = missed

(***************************************************************************)
(* Actions.                                                                  *)
(***************************************************************************)
\* the module has been loaded: the Maps and the Set are empty
EngineStart(tickers, slots) ==
    /\ now = BootTime
    /\ priceHistory = [i \in tickers |-> <<>>]
    /\ triggeredAlerts = [t \in Tiers |-> <<>>]
    /\ wsClients = {}
    /\ readyState = [c \in slots |-> 0]
    /\ sent = [c \in slots |-> <<>>]
    /\ phase = "fetch"
    /\ bootQueue = <<>>
    /\ pollDue = FALSE
    /\ cleanupDue = FALSE
    /\ lastCheck = [i \in tickers |-> 0 - 1]
    /\ broadcast = <<>>
    /\ fetched = <<>>
    /\ served = NoResponse
    /\ firstMessage = [c \in slots |-> "none"]
    /\ fetchedCandles = <<>>
    /\ missed = FALSE

EngineInit == EngineStart(Instruments, 1..MaxClients)

\* a variant in which the timers are set when the server starts to listen
TickTimersAtListen ==
    /\ now < EndTime
    /\ now' = now + TickMs
    /\ pollDue' = TRUE
    /\ cleanupDue' = TRUE
    /\ sent' = NoneSent
    /\ NoTrace
    /\ UNCHANGED <<priceHistory, triggeredAlerts, wsClients, readyState, phase, bootQueue,
                   lastCheck, firstMessage>>
    /\ UNCHANGED <<arith, fetcherVars, classifyVars>>

\* time passes; once the timers are set (lines 433-436, after the bootstrap),
\* their intervals elapse: pollMarkets is called and awaits its listing,
\* cleanupAlerts is called
Tick ==
    /\ now < EndTime
    /\ now' = now + TickMs
    /\ pollDue' = (phase = "run")
    /\ cleanupDue' = (phase = "run")
    /\ sent' = NoneSent
    /\ NoTrace
    /\ UNCHANGED <<priceHistory, triggeredAlerts, wsClients, readyState, phase, bootQueue,
                   lastCheck, firstMessage>>
    /\ UNCHANGED <<arith, fetcherVars, classifyVars>>

\* the first page request of a fetchActiveMarkets failed
Unfetched(replies) == Head(replies).reply.thrown \/ ~Head(replies).reply.ok

\* a variant that clears the poll timer when the listing could not be fetched
PollMarketsOrStop(replies) ==
    /\ pollDue
    /\ LET st == PollLoop(LoopState, FetchActiveMarkets(replies))
       IN  /\ priceHistory' = st.history
           /\ triggeredAlerts' = st.alerts
           /\ sent' = st.sent
           /\ lastCheck' = st.found
           /\ broadcast' = st.broadcast
           /\ firstMessage' = FirstMessage(st.sent)
    /\ fetched' = replies
    /\ served' = NoResponse
    /\ fetchedCandles' = <<>>
    /\ missed' = (missed \/ Unfetched(replies))
    /\ pollDue' = FALSE
    /\ phase' = IF \E k \in 1..Len(replies) : ~replies[k].reply.ok THEN "stopped" ELSE phase
    /\ UNCHANGED <<now, wsClients, readyState, bootQueue, cleanupDue>>
    /\ UNCHANGED <<arith, fetcherVars, classifyVars>>

\* pollMarkets: the listing is fetched, then every active market is checked
PollMarkets(replies) ==
    /\ pollDue
    /\ LET st == PollLoop(LoopState, FetchActiveMarkets(replies))
       IN  /\ priceHistory' = st.history
           /\ triggeredAlerts' = st.alerts
           /\ sent' = st.sent
           /\ lastCheck' = st.found
           /\ broadcast' = st.broadcast
           /\ firstMessage' = FirstMessage(st.sent)
    /\ fetched' = replies
    /\ served' = NoResponse
    /\ fetchedCandles' = <<>>
    /\ missed' = (missed \/ Unfetched(replies))
    /\ pollDue' = FALSE
    /\ UNCHANGED <<now, wsClients, readyState, phase, bootQueue, cleanupDue>>
    /\ UNCHANGED <<arith, fetcherVars, classifyVars>>

\* lines 286-307 when the first call of client.send (line 185) throws: the
\* loop has no try/catch, so the exception leaves broadcastAlert and the loop.
\* The market whose alert was to be pushed is recorded and registered (line
\* 301 precedes line 302), no message is sent, the markets after it are not
\* processed.
RECURSIVE PollLoopThrown(_, _)
PollLoopThrown(st, markets) ==
    IF markets = <<>> THEN st
    ELSE LET s1 == Ap(LAMBDA s : PollOne(s, Head(markets)), st)
         IN  IF s1.broadcast # <<>> THEN [s1 EXCEPT !.sent = NoneSent]
             ELSE PollLoopThrown(s1, Tail(markets))

\* pollMarkets in a cycle whose first call of client.send throws: the promise
\* of pollMarkets is rejected, the interval timer stays set
PollMarketsSendThrows(replies) ==
    /\ pollDue
    /\ \E c \in wsClients : readyState[c] = WS_OPEN
    /\ LET st == PollLoopThrown(LoopState, FetchActiveMarkets(replies))
       IN  /\ st.broadcast # <<>>
           /\ priceHistory' = st.history
           /\ triggeredAlerts' = st.alerts
           /\ sent' = st.sent
           /\ lastCheck' = st.found
           /\ broadcast' = st.broadcast
    /\ fetched' = replies
    /\ served' = NoResponse
    /\ fetchedCandles' = <<>>
    /\ missed' = (missed \/ Unfetched(replies))
    /\ pollDue' = FALSE
    /\ UNCHANGED <<now, wsClients, readyState, phase, bootQueue, cleanupDue, firstMessage>>
    /\ UNCHANGED <<arith, fetcherVars, classifyVars>>

\* a variant that lets an alert expire after two windows
ExpiredAfterTwoWindows(entry, cutoff) ==
    GetTime(entry.value.timestamp) < cutoff - WINDOW_MS

\* a variant that also drops the alert fired exactly at the cutoff
ExpiredAtCutoff(entry, cutoff) == GetTime(entry.value.timestamp) <= cutoff

\* cleanupAlerts: timestamp.getTime() < cutoff
Expired(entry, cutoff) == GetTime(entry.value.timestamp) < cutoff

\* cleanupAlerts, at the end of its interval
CleanupAlerts ==
    /\ cleanupDue
    /\ cleanupDue' = FALSE
    /\ LET cutoff == now - WINDOW_MS
       IN  triggeredAlerts' =
               [t \in Tiers |->
                   SelectSeq(triggeredAlerts[t], LAMBDA en : ~Expired(en, cutoff))]
    /\ sent' = NoneSent
    /\ NoTrace
    /\ UNCHANGED <<now, priceHistory, wsClients, readyState, phase, bootQueue, pollDue,
                   lastCheck, firstMessage>>
    /\ UNCHANGED <<arith, fetcherVars, classifyVars>>

\* candlestick responses: up to MaxCandles candles; <<>> also stands for a
\* failed request, which fetchCandlesticks turns into []
Candles(t) ==
    {[open |-> o, close |-> c, end_period_ts |-> (t + d) \div 1000] :
        o \in CandleOpens, c \in CandleCloses, d \in CandleOffsets}

\* "B" has no candle history
CandleResponses(ticker, t) ==
    IF ticker = "A" THEN UNION {[1..n -> Candles(t)] : n \in 0..MaxCandles}
    ELSE {<<>>}

\* a variant that falls back to any nonzero prior price
BootSeriesAnyPrior(currentPrice, previousPrice, candlesticks, t) ==
    IF Len(candlesticks) > 0
    THEN [history |-> Append([k \in 1..Len(candlesticks) |->
                                 [price |-> candlesticks[k].close,
                                  timestamp |-> candlesticks[k].end_period_ts * 1000]],
                             [price |-> currentPrice, timestamp |-> t]),
          oldestPrice |-> OrElse(candlesticks[1].open, candlesticks[1].close),
          kind |-> "candles"]
    ELSE IF previousPrice > 0
    THEN [history |-> <<[price |-> previousPrice, timestamp |-> t - WINDOW_MS],
                        [price |-> currentPrice, timestamp |-> t]>>,
          oldestPrice |-> previousPrice,
          kind |-> "previous"]
    ELSE [history |-> <<>>, oldestPrice |-> 0, kind |-> "single"]

\* lines 206-227: the series and the reference price bootstrap derives
BootSeries(currentPrice, previousPrice, candlesticks, t) ==
    IF Len(candlesticks) > 0
    THEN [history |-> Append([k \in 1..Len(candlesticks) |->
                                 [price |-> candlesticks[k].close,
                                  timestamp |-> candlesticks[k].end_period_ts * 1000]],
                             [price |-> currentPrice, timestamp |-> t]),
          oldestPrice |-> OrElse(candlesticks[1].open, candlesticks[1].close),
          kind |-> "candles"]
    ELSE IF previousPrice > 0 /\ previousPrice # currentPrice
    THEN [history |-> <<[price |-> previousPrice, timestamp |-> t - WINDOW_MS],
                        [price |-> currentPrice, timestamp |-> t]>>,
          oldestPrice |-> previousPrice,
          kind |-> "previous"]
    ELSE [history |-> <<>>, oldestPrice |-> 0, kind |-> "single"]

\* lines 234-254: the alert bootstrap builds, NoAlert when no tier is reached
BootAlert(ticker, currentPrice, oldestPrice, t) ==
    IF Tier(currentPrice, oldestPrice) = 0 THEN NoAlert
    ELSE [priceChange |-> PercentChange(currentPrice, oldestPrice),
          tier |-> Tier(currentPrice, oldestPrice),
          direction |-> Direction(currentPrice, oldestPrice),
          timestamp |-> ToISOString(t),
          currentPrice |-> currentPrice,
          ticker |-> ticker,
          oldPrice |-> oldestPrice,
          minPrice |-> IF oldestPrice < currentPrice THEN oldestPrice ELSE currentPrice,
          maxPrice |-> IF oldestPrice > currentPrice THEN oldestPrice ELSE currentPrice]

\* the body of bootstrapHistoricalData's loop for one market, after its
\* candlestick request has returned
BootOne(st, market, candlesticks, t) ==
    LET currentPrice == OrElse(market.last_price, market.yes_ask)
        previousPrice == OrElse(market.previous_price, market.previous_yes_bid)
        b == BootSeries(currentPrice, previousPrice, candlesticks, t)
    IN  IF currentPrice = 0 THEN st
        ELSE IF b.oldestPrice > 0 /\ Len(b.history) > 0
        THEN LET alert == BootAlert(market.ticker, currentPrice, b.oldestPrice, t)
                 st1 == [st EXCEPT !.history[market.ticker] = b.history,
                                   !.found[market.ticker] = alert.tier]
             IN  Register(st1, market.ticker, alert)
        ELSE [st EXCEPT !.history[market.ticker] =
                            <<[price |-> currentPrice, timestamp |-> t]>>]

\* server.listen's callback: the initial fetchActiveMarkets returns; with no
\* market the bootstrap loop is empty and the timers are set at once
InitialFetch(replies) ==
    /\ phase = "fetch"
    /\ bootQueue' = FetchActiveMarkets(replies)
    /\ phase' = IF FetchActiveMarkets(replies) = <<>> THEN "run" ELSE "boot"
    /\ sent' = NoneSent
    /\ broadcast' = <<>>
    /\ fetched' = replies
    /\ served' = NoResponse
    /\ fetchedCandles' = <<>>
    /\ UNCHANGED <<now, priceHistory, triggeredAlerts, wsClients, readyState, pollDue,
                   cleanupDue, lastCheck, firstMessage, missed>>
    /\ UNCHANGED <<arith, fetcherVars, classifyVars>>

\* the reply to the candlestick request: what rateLimitedFetch settled with
\* and, of a response that is ok, data.candlesticks || []
CandlesOf(candlesticks) == [reply |-> Reply(200), candlesticks |-> candlesticks]

CandlesFailed(reply) == [reply |-> reply, candlesticks |-> <<>>]

\* fetchCandlesticks: [] unless the response is ok
FetchCandlesticks(response) ==
    IF response.reply.thrown \/ ~response.reply.ok THEN <<>>
    ELSE response.candlesticks

\* a variant that sets the timers after the first iteration
BootstrapStepTimersEarly(response) ==
    /\ phase = "boot"
    /\ LET market == Head(bootQueue)
           st == BootOne(LoopState, market, FetchCandlesticks(response), now)
       IN  /\ priceHistory' = st.history
           /\ triggeredAlerts' = st.alerts
           /\ sent' = st.sent
           /\ lastCheck' = st.found
           /\ broadcast' = st.broadcast
           /\ firstMessage' = FirstMessage(st.sent)
    /\ fetched' = <<>>
    /\ served' = NoResponse
    /\ fetchedCandles' =
           IF OrElse(Head(bootQueue).last_price, Head(bootQueue).yes_ask) = 0 THEN <<>>
           ELSE <<response>>
    /\ bootQueue' = Tail(bootQueue)
    /\ phase' = "run"
    /\ UNCHANGED <<now, wsClients, readyState, pollDue, cleanupDue, missed>>
    /\ UNCHANGED <<arith, fetcherVars, classifyVars>>

\* a variant that gives the bootstrap up when a candlestick request fails
BootstrapStepOrAbort(response) ==
    /\ phase = "boot"
    /\ LET market == Head(bootQueue)
           failed == response.reply.thrown \/ ~response.reply.ok
           st == IF failed THEN LoopState
                 ELSE BootOne(LoopState, market, FetchCandlesticks(response), now)
       IN  /\ priceHistory' = st.history
           /\ triggeredAlerts' = st.alerts
           /\ sent' = st.sent
           /\ lastCheck' = st.found
           /\ broadcast' = st.broadcast
           /\ firstMessage' = FirstMessage(st.sent)
           /\ bootQueue' = IF failed THEN <<>> ELSE Tail(bootQueue)
           /\ phase' = IF failed \/ Tail(bootQueue) = <<>> THEN "run" ELSE "boot"
    /\ fetched' = <<>>
    /\ served' = NoResponse
    /\ fetchedCandles' =
           IF OrElse(Head(bootQueue).last_price, Head(bootQueue).yes_ask) = 0 THEN <<>>
           ELSE <<response>>
    /\ UNCHANGED <<now, wsClients, readyState, pollDue, cleanupDue, missed>>
    /\ UNCHANGED <<arith, fetcherVars, classifyVars>>

\* one iteration of the bootstrap loop; after the last one setInterval starts
\* the poll and the cleanup timers
BootstrapStep(response) ==
    /\ phase = "boot"
    /\ LET market == Head(bootQueue)
           st == BootOne(LoopState, market, FetchCandlesticks(response), now)
       IN  /\ priceHistory' = st.history
           /\ triggeredAlerts' = st.alerts
           /\ sent' = st.sent
           /\ lastCheck' = st.found
           /\ broadcast' = st.broadcast
           /\ firstMessage' = FirstMessage(st.sent)
    /\ fetched' = <<>>
    /\ served' = NoResponse
    /\ fetchedCandles' =
           IF OrElse(Head(bootQueue).last_price, Head(bootQueue).yes_ask) = 0 THEN <<>>
           ELSE <<response>>
    /\ bootQueue' = Tail(bootQueue)
    /\ phase' = IF Tail(bootQueue) = <<>> THEN "run" ELSE "boot"
    /\ UNCHANGED <<now, wsClients, readyState, pollDue, cleanupDue, missed>>
    /\ UNCHANGED <<arith, fetcherVars, classifyVars>>

\* a variant whose 'initial' message holds the tier of 20% only
InitialDataTopTier ==
    [t \in Tiers |->
        IF t = 20
        THEN [k \in 1..Len(triggeredAlerts[t]) |-> triggeredAlerts[t][k].value]
        ELSE <<>>]

\* the data of the 'initial' message: the values of each tier's Map
InitialData == [t \in Tiers |-> [k \in 1..Len(triggeredAlerts[t]) |-> triggeredAlerts[t][k].value]]

\* a variant that adds the connection and sends it nothing
ConnectionUngreeted(c) ==
    /\ readyState[c] = 0
    /\ \A d \in Clients : d < c => readyState[d] # 0
    /\ wsClients' = wsClients \cup {c}
    /\ readyState' = [readyState EXCEPT ![c] = WS_OPEN]
    /\ sent' = NoneSent
    /\ NoTrace
    /\ UNCHANGED <<now, priceHistory, triggeredAlerts, phase, bootQueue, pollDue,
                   cleanupDue, lastCheck, firstMessage>>
    /\ UNCHANGED <<arith, fetcherVars, classifyVars>>

\* wss.on('connection'): a new connection is added and sent the initial data
Connection(c) ==
    /\ readyState[c] = 0
    /\ \A d \in Clients : d < c => readyState[d] # 0
    /\ wsClients' = wsClients \cup {c}
    /\ readyState' = [readyState EXCEPT ![c] = WS_OPEN]
    /\ sent' = [NoneSent EXCEPT ![c] = <<Message("initial", InitialData)>>]
    /\ firstMessage' = FirstMessage(sent')
    /\ NoTrace
    /\ UNCHANGED <<now, priceHistory, triggeredAlerts, phase, bootQueue, pollDue,
                   cleanupDue, lastCheck>>
    /\ UNCHANGED <<arith, fetcherVars, classifyVars>>

\* the closing handshake of a connection starts: readyState leaves OPEN before
\* the 'close' event is emitted
BeginClose(c) ==
    /\ readyState[c] = WS_OPEN
    /\ readyState' = [readyState EXCEPT ![c] = WS_CLOSING]
    /\ sent' = NoneSent
    /\ NoTrace
    /\ UNCHANGED <<now, priceHistory, triggeredAlerts, wsClients, phase, bootQueue, pollDue,
                   cleanupDue, lastCheck, firstMessage>>
    /\ UNCHANGED <<arith, fetcherVars, classifyVars>>

\* a variant in which the 'close' handler leaves the connection in the Set
CloseKept(c) ==
    /\ readyState[c] \in {WS_OPEN, WS_CLOSING}
    /\ readyState' = [readyState EXCEPT ![c] = 0]
    /\ sent' = NoneSent
    /\ firstMessage' = [firstMessage EXCEPT ![c] = "none"]
    /\ NoTrace
    /\ UNCHANGED <<now, priceHistory, triggeredAlerts, wsClients, phase, bootQueue, pollDue,
                   cleanupDue, lastCheck>>
    /\ UNCHANGED <<arith, fetcherVars, classifyVars>>

\* ws.on('close'): the connection is closed and leaves the Set; nothing
\* refers to it any more and its slot is free
Close(c) ==
    /\ readyState[c] \in {WS_OPEN, WS_CLOSING}
    /\ readyState' = [readyState EXCEPT ![c] = 0]
    /\ wsClients' = wsClients \ {c}
    /\ sent' = NoneSent
    /\ firstMessage' = [firstMessage EXCEPT ![c] = "none"]
    /\ NoTrace
    /\ UNCHANGED <<now, priceHistory, triggeredAlerts, phase, bootQueue, pollDue,
                   cleanupDue, lastCheck>>
    /\ UNCHANGED <<arith, fetcherVars, classifyVars>>

\* Array.from(tierMap.values())
Values(tierMap) == [k \in 1..Len(tierMap) |-> tierMap[k].value]

\* a variant that compares the signed changes
NotAfterSigned(a, b) ==
    IF a.priceChange.neg # b.priceChange.neg THEN b.priceChange.neg
    ELSE IF a.priceChange.neg THEN FGeq(FAbs(b.priceChange), FAbs(a.priceChange))
    ELSE FGeq(a.priceChange, b.priceChange)

\* Math.abs(b.priceChange) - Math.abs(a.priceChange) <= 0: the comparator
\* does not put a after b (the difference of two doubles has the sign of
\* their comparison)
NotAfter(a, b) == FGeq(FAbs(a.priceChange), FAbs(b.priceChange))

\* x put into a sorted array behind every element the comparator does not
\* put after it
Insert(sorted, x) ==
    LET k == Cardinality({j \in 1..Len(sorted) : NotAfter(sorted[j], x)})
    IN  SubSeq(sorted, 1, k) \o <<x>> \o SubSeq(sorted, k + 1, Len(sorted))

\* array.sort(comparator): a stable sort
RECURSIVE Sort(_)
Sort(array) ==
    IF array = <<>> THEN <<>>
    ELSE Insert(Sort(SubSeq(array, 1, Len(array) - 1)), array[Len(array)])

\* the body of the response of GET /api/alerts
Snapshot == [t \in Tiers |-> Sort(Values(triggeredAlerts[t]))]

\* the entries of a Map in the order array.sort gives their values
Sorted(tierMap) ==
    [k \in 1..Len(tierMap) |->
        [key |-> Sort(Values(tierMap))[k].ticker, value |-> Sort(Values(tierMap))[k]]]

\* a variant that sorts the stored collections themselves
GetAlertsInPlace ==
    /\ served' = [status |-> 200, body |-> Snapshot]
    /\ triggeredAlerts' = [t \in Tiers |-> Sorted(triggeredAlerts[t])]
    /\ sent' = NoneSent
    /\ broadcast' = <<>>
    /\ fetched' = <<>>
    /\ fetchedCandles' = <<>>
    /\ UNCHANGED <<now, priceHistory, wsClients, readyState, phase,
                   bootQueue, pollDue, cleanupDue, lastCheck, firstMessage, missed>>
    /\ UNCHANGED <<arith, fetcherVars, classifyVars>>

\* app.get('/api/alerts')
GetAlerts ==
    /\ served' = [status |-> 200, body |-> Snapshot]
    /\ sent' = NoneSent
    /\ broadcast' = <<>>
    /\ fetched' = <<>>
    /\ fetchedCandles' = <<>>
    /\ UNCHANGED <<now, priceHistory, triggeredAlerts, wsClients, readyState, phase,
                   bootQueue, pollDue, cleanupDue, lastCheck, firstMessage, missed>>
    /\ UNCHANGED <<arith, fetcherVars, classifyVars>>

(***************************************************************************)
(* rateLimitedFetch and its callers.  JavaScript runs a call up to its first *)
(* await in one piece; a caller is then suspended on a timer or on the       *)
(* network.  fetchActiveMarkets and fetchCandlesticks (one caller: the       *)
(* start-up and poll code awaits each call) and the two market routes call   *)
(* it, each route on behalf of any number of HTTP requests at once.          *)
(***************************************************************************)
Callers == {"engine", "detail", "history"}

StartClock == 1000 * MIN_REQUEST_INTERVAL

\* times that may pass between two events, besides the wait for a timer
Delays == {MIN_REQUEST_INTERVAL \div 3, MIN_REQUEST_INTERVAL}

\* arbitrary delays are taken within this span of the start
DelaySpan == 2 * MIN_REQUEST_INTERVAL

\* an outbound attempt that has not been answered yet
Pending == [status |-> 0, thrown |-> FALSE, ok |-> FALSE]

Attempt == [reply |-> Pending, answeredAt |-> 0]

\* the attempts, the last of them answered with reply at time t
Answer(attempts, reply, t) ==
    [attempts EXCEPT ![Len(attempts)] = [@ EXCEPT !.reply = reply, !.answeredAt = t]]

NoReturn == [tries |-> <<>>, caller |-> "none", result |-> Pending]

\* the call of caller c settles with the reply to its last attempt
Return(c, reply) ==
    [tries |-> Answer(tries[c], reply, clock), caller |-> c, result |-> reply]

FetcherInit ==
    /\ clock = StartClock
    /\ lastRequestTime = 0
    /\ pc = [c \in Callers |-> "idle"]
    /\ wake = [c \in Callers |-> 0]
    /\ calls = <<>>
    /\ tries = [c \in Callers |-> <<>>]
    /\ returned = NoReturn

\* lines 34-41: the call starts; it is suspended when the last request is
\* too recent, else the request goes out at once
Call(c) ==
    /\ pc[c] = "idle"
    /\ Len(calls) < MaxCalls
    /\ LET timeSinceLast == clock - lastRequestTime
       IN  IF timeSinceLast < MIN_REQUEST_INTERVAL
           THEN /\ pc' = [pc EXCEPT ![c] = "suspended"]
                /\ wake' = [wake EXCEPT ![c] = clock + (MIN_REQUEST_INTERVAL - timeSinceLast)]
                /\ UNCHANGED <<lastRequestTime, calls, tries>>
           ELSE /\ pc' = [pc EXCEPT ![c] = "fetching"]
                /\ lastRequestTime' = clock
                /\ calls' = Append(calls, clock)
                /\ tries' = [tries EXCEPT ![c] = <<Attempt>>]
                /\ UNCHANGED wake
    /\ returned' = NoReturn
    /\ UNCHANGED clock
    /\ UNCHANGED <<arith, engineVars, classifyVars>>

\* lines 38-43: the timer fires and the request goes out
Resume(c) ==
    /\ pc[c] = "suspended"
    /\ clock = wake[c]
    /\ pc' = [pc EXCEPT ![c] = "fetching"]
    /\ lastRequestTime' = clock
    /\ calls' = Append(calls, clock)
    /\ tries' = [tries EXCEPT ![c] = <<Attempt>>]
    /\ wake' = [wake EXCEPT ![c] = 0]
    /\ returned' = NoReturn
    /\ UNCHANGED clock
    /\ UNCHANGED <<arith, engineVars, classifyVars>>

\* a variant that waits and retries after every response that is not ok and
\* after a network failure
ResponseRetryAny(c, reply) ==
    /\ pc[c] = "fetching"
    /\ IF ~reply.ok
       THEN /\ pc' = [pc EXCEPT ![c] = "backoff"]
            /\ wake' = [wake EXCEPT ![c] = clock + RETRY_WAIT_MS]
            /\ tries' = [tries EXCEPT ![c] = Answer(@, reply, clock)]
            /\ returned' = NoReturn
       ELSE /\ pc' = [pc EXCEPT ![c] = "idle"]
            /\ tries' = [tries EXCEPT ![c] = <<>>]
            /\ returned' = Return(c, reply)
            /\ UNCHANGED wake
    /\ UNCHANGED <<clock, lastRequestTime, calls>>
    /\ UNCHANGED <<arith, engineVars, classifyVars>>

\* lines 43-65: the first fetch settles; a 429 starts the wait before the
\* retry, any other response is returned and a rejection is thrown on
Response(c, reply) ==
    /\ pc[c] = "fetching"
    /\ IF RateLimited(reply)
       THEN /\ pc' = [pc EXCEPT ![c] = "backoff"]
            /\ wake' = [wake EXCEPT ![c] = clock + RETRY_WAIT_MS]
            /\ tries' = [tries EXCEPT ![c] = Answer(@, reply, clock)]
            /\ returned' = NoReturn
       ELSE /\ pc' = [pc EXCEPT ![c] = "idle"]
            /\ tries' = [tries EXCEPT ![c] = <<>>]
            /\ returned' = Return(c, reply)
            /\ UNCHANGED wake
    /\ UNCHANGED <<clock, lastRequestTime, calls>>
    /\ UNCHANGED <<arith, engineVars, classifyVars>>

\* a variant that sends the request again without waiting
RetryAtOnce(c) ==
    /\ pc[c] = "backoff"
    /\ pc' = [pc EXCEPT ![c] = "refetching"]
    /\ lastRequestTime' = clock
    /\ calls' = Append(calls, clock)
    /\ tries' = [tries EXCEPT ![c] = Append(@, Attempt)]
    /\ wake' = [wake EXCEPT ![c] = 0]
    /\ returned' = NoReturn
    /\ UNCHANGED clock
    /\ UNCHANGED <<arith, engineVars, classifyVars>>

\* lines 54-56: the wait is over and the request is sent once more
Retry(c) ==
    /\ pc[c] = "backoff"
    /\ clock = wake[c]
    /\ pc' = [pc EXCEPT ![c] = "refetching"]
    /\ lastRequestTime' = clock
    /\ calls' = Append(calls, clock)
    /\ tries' = [tries EXCEPT ![c] = Append(@, Attempt)]
    /\ wake' = [wake EXCEPT ![c] = 0]
    /\ returned' = NoReturn
    /\ UNCHANGED clock
    /\ UNCHANGED <<arith, engineVars, classifyVars>>

\* a variant that waits and retries again while the retry is answered 429
RetryResponseAgain(c, reply) ==
    /\ pc[c] = "refetching"
    /\ IF RateLimited(reply)
       THEN /\ pc' = [pc EXCEPT ![c] = "backoff"]
            /\ wake' = [wake EXCEPT ![c] = clock + RETRY_WAIT_MS]
            /\ tries' = [tries EXCEPT ![c] = Answer(@, reply, clock)]
            /\ returned' = NoReturn
       ELSE /\ pc' = [pc EXCEPT ![c] = "idle"]
            /\ tries' = [tries EXCEPT ![c] = <<>>]
            /\ returned' = Return(c, reply)
            /\ UNCHANGED wake
    /\ UNCHANGED <<clock, lastRequestTime, calls>>
    /\ UNCHANGED <<arith, engineVars, classifyVars>>

\* line 56: whatever the second fetch settles with is the result of the call
RetryResponse(c, reply) ==
    /\ pc[c] = "refetching"
    /\ pc' = [pc EXCEPT ![c] = "idle"]
    /\ tries' = [tries EXCEPT ![c] = <<>>]
    /\ returned' = Return(c, reply)
    /\ UNCHANGED <<clock, lastRequestTime, wake, calls>>
    /\ UNCHANGED <<arith, engineVars, classifyVars>>

\* the timers that are pending
Timers == {wake[c] : c \in {d \in Callers : pc[d] \in {"suspended", "backoff"}}}

\* time passes, up to the next timer: by some delay, or until that timer
Elapse(d) ==
    /\ d > 0
    /\ \A w \in Timers : clock + d <= w
    /\ d \in Delays => clock + d <= StartClock + DelaySpan
    /\ clock' = clock + d
    /\ returned' = NoReturn
    /\ UNCHANGED <<lastRequestTime, pc, wake, calls, tries>>
    /\ UNCHANGED <<arith, engineVars, classifyVars>>

(***************************************************************************)
(* The classification code on its own: a pair of prices is classified by     *)
(* checkVolatility (the series holds the reference, then the current price)  *)
(* or by bootstrapHistoricalData (the reference is the prior price).         *)
(***************************************************************************)
ClassifyInit ==
    /\ quote = <<>>
    /\ verdict = [route |-> "none"]

Verdict(route, alert) ==
    IF alert = NoAlert THEN [tier |-> 0, route |-> route]
    ELSE [priceChange |-> alert.priceChange, tier |-> alert.tier, direction |-> alert.direction,
          route |-> route]

ClassifyPoll ==
    /\ verdict.route = "none"
    /\ LET r == CheckVolatility(<<[price |-> quote[2], timestamp |-> BootTime - TickMs]>>,
                                "A", quote[1], BootTime)
       IN  verdict' = Verdict("poll", r.alert)
    /\ UNCHANGED quote
    /\ UNCHANGED <<arith, engineVars, fetcherVars>>

ClassifyBoot ==
    /\ verdict.route = "none"
    /\ verdict' = Verdict("boot", BootAlert("A", quote[1], quote[2], BootTime))
    /\ UNCHANGED quote
    /\ UNCHANGED <<arith, engineVars, fetcherVars>>

(***************************************************************************)
(* Specifications.                                                           *)
(***************************************************************************)
Init ==
    /\ arith = Arithmetic(EngineCents)
    /\ EngineInit
    /\ FetcherInit
    /\ ClassifyInit

Next ==
    \/ Tick
    \/ \E listing \in Listings(Instruments, StartupPriors) :
           InitialFetch(<<PageOf(listing, FALSE)>>)
    \/ /\ phase = "boot"
       /\ \E candlesticks \in CandleResponses(Head(bootQueue).ticker, now) :
              BootstrapStep(CandlesOf(candlesticks))
    \/ \E listing \in Listings(OpenAtPoll, PollPriors) :
           PollMarkets(<<PageOf(listing, FALSE)>>)
    \/ CleanupAlerts
    \/ \E c \in Clients : Connection(c)
    \/ \E c \in Clients : BeginClose(c)
    \/ \E c \in Clients : Close(c)

Spec == Init /\ [][Next]_vars

\* the fetcher under every interleaving of its callers
NextFetch ==
    \/ \E c \in Callers : Call(c)
    \/ \E c \in Callers : Resume(c)
    \/ \E c \in Callers, reply \in Replies : Response(c, reply)
    \/ \E c \in Callers : Retry(c)
    \/ \E c \in Callers, reply \in Replies : RetryResponse(c, reply)
    \/ \E d \in Delays \cup {w - clock : w \in Timers} : Elapse(d)

SpecFetch == Init /\ [][NextFetch]_vars

\* the classification of every pair of prices of ClassifyCents
InitClassify ==
    /\ arith = Arithmetic(ClassifyCents)
    /\ EngineInit
    /\ FetcherInit
    /\ quote \in ClassifyCents \X ClassifyCents
    /\ verdict = [route |-> "none"]

NextClassify == ClassifyPoll \/ ClassifyBoot

SpecClassify == InitClassify /\ [][NextClassify]_vars

\* the service with three instruments and MaxSubscribers connections, over
\* MaxCycles poll intervals
HubEntry(i, volume, last, previous) ==
    [ticker |-> i, volume |-> volume, last_price |-> last, yes_ask |-> 43,
     previous_price |-> previous, previous_yes_bid |-> 0]

HubStartup == <<HubEntry("A", 1, 61, 50), HubEntry("B", 1, 40, 0), HubEntry("C", 1, 80, 0)>>

\* the entries a poll listing may hold for a ticker
HubQuotes(i) ==
    IF i = "B" THEN {HubEntry("B", 1, 26, 0), HubEntry("B", 0, 26, 0), HubEntry("B", 1, 0, 0)}
    ELSE {HubEntry("C", 1, 97, 0)}

HubOrders == {<<"B", "C">>, <<"C", "B">>}

\* poll listings: some of the open instruments, in one of the orders
HubListings ==
    UNION {{[k \in 1..Len(tickers) |-> q[tickers[k]]] :
                q \in {f \in [{"B", "C"} -> HubQuotes("B") \cup HubQuotes("C")] :
                           \A i \in {"B", "C"} : f[i] \in HubQuotes(i)}} :
           tickers \in {SelectSeq(order, LAMBDA i : i \in some) :
                           order \in HubOrders, some \in SUBSET {"B", "C"}}}

\* what a page request may fail with: 500, 429 after the retry, no network
Failures == Replies \ {Reply(200)}

\* the replies to the page requests of one fetchActiveMarkets: one page, a
\* failed first page, two pages (the first market, then the others), a
\* failed second page
HubFetches(listings) ==
    {<<PageOf(listing, FALSE)>> : listing \in listings}
    \cup {<<PageFailed(reply)>> : reply \in Failures}
    \cup {<<PageOf(<<Head(listing)>>, TRUE), PageOf(Tail(listing), FALSE)>> :
              listing \in {l \in listings : Len(l) >= 2 /\ ActiveMarkets(l) = l}}
    \cup {<<PageOf(<<Head(listing)>>, TRUE), PageFailed(Reply(500))>> :
              listing \in {l \in listings : Len(l) >= 2 /\ ActiveMarkets(l) = l}}

InitHub ==
    /\ arith = Arithmetic(HubCents)
    /\ EngineStart(HubInstruments, 1..MaxSubscribers)
    /\ FetcherInit
    /\ ClassifyInit

NextHub ==
    \/ now < BootTime + MaxCycles * TickMs /\ Tick
    \/ \E replies \in HubFetches({HubStartup}) : InitialFetch(replies)
    \/ BootstrapStep(CandlesOf(<<>>))
    \/ \E replies \in HubFetches(HubListings) : PollMarkets(replies)
    \/ CleanupAlerts
    \/ \E c \in Clients : Connection(c)
    \/ \E c \in Clients : BeginClose(c)
    \/ \E c \in Clients : Close(c)
    \/ GetAlerts

SpecHub == InitHub /\ [][NextHub]_vars

\* the timers over MaxCycles poll intervals, without connections.  Time
\* passes and the timers fire (CycleTick); the listing a poll cycle awaits
\* arrives or its request fails (PollCycle).
CycleEnd == BootTime + MaxCycles * TickMs

CycleTick == now < CycleEnd /\ Tick

PollCycle == \E replies \in HubFetches(HubListings) : PollMarkets(replies)

InitCycle ==
    /\ arith = Arithmetic(HubCents)
    /\ EngineStart(HubInstruments, {})
    /\ FetcherInit
    /\ ClassifyInit

NextCycle ==
    \/ CycleTick
    \/ \E replies \in HubFetches({HubStartup}) : InitialFetch(replies)
    \/ \E response \in {CandlesOf(<<>>), CandlesFailed(Reply(500))} : BootstrapStep(response)
    \/ PollCycle
    \/ CleanupAlerts

SpecCycle ==
    InitCycle /\ [][NextCycle]_vars /\ WF_vars(CycleTick) /\ WF_vars(PollCycle)

\* the bootstrap and the poll cycles after it, with candlesticks that may
\* close at 0 and candlestick requests that may fail; no connection
BootCandles(t) ==
    {[open |-> o, close |-> c, end_period_ts |-> (t + d) \div 1000] :
        o \in CandleOpens, c \in CandleCloses \cup {0}, d \in CandleOffsets}

\* "A" has up to MaxCandles candles or its request fails, "B" has none
BootCandleReplies(ticker, t) ==
    IF ticker = "A"
    THEN {CandlesOf(candlesticks) :
              candlesticks \in UNION {[1..n -> BootCandles(t)] : n \in 0..MaxCandles}}
         \cup {CandlesFailed(reply) : reply \in Failures}
    ELSE {CandlesOf(<<>>)}

InitBoot ==
    /\ arith = Arithmetic(EngineCents)
    /\ EngineStart(Instruments, {})
    /\ FetcherInit
    /\ ClassifyInit

NextBoot ==
    \/ Tick
    \/ \E listing \in Listings(Instruments, StartupPriors) :
           InitialFetch(<<PageOf(listing, FALSE)>>)
    \/ /\ phase = "boot"
       /\ \E response \in BootCandleReplies(Head(bootQueue).ticker, now) :
              BootstrapStep(response)
    \/ \E listing \in Listings(OpenAtPoll, PollPriors) :
           PollMarkets(<<PageOf(listing, FALSE)>>)

SpecBoot == InitBoot /\ [][NextBoot]_vars

\* the bootstrap, the poll cycles and the cleanup runs, without connections.
\* Time passes and the intervals of the timers elapse (Tick); a cleanup that
\* is due runs (CleanupAlerts, a synchronous callback of the event loop).
NextExpiry ==
    \/ Tick
    \/ \E listing \in Listings(Instruments, StartupPriors) :
           InitialFetch(<<PageOf(listing, FALSE)>>)
    \/ /\ phase = "boot"
       /\ \E response \in BootCandleReplies(Head(bootQueue).ticker, now) :
              BootstrapStep(response)
    \/ \E listing \in Listings(OpenAtPoll, PollPriors) :
           PollMarkets(<<PageOf(listing, FALSE)>>)
    \/ CleanupAlerts

SpecExpiry ==
    InitBoot /\ [][NextExpiry]_vars /\ WF_vars(Tick) /\ WF_vars(CleanupAlerts)

\* the poll cycles with MaxClients connections that open, start to close and
\* close, and whose send may throw
InitThrow ==
    /\ arith = Arithmetic(HubCents)
    /\ EngineStart(HubInstruments, 1..MaxClients)
    /\ FetcherInit
    /\ ClassifyInit

NextThrow ==
    \/ CycleTick
    \/ \E replies \in HubFetches({HubStartup}) : InitialFetch(replies)
    \/ BootstrapStep(CandlesOf(<<>>))
    \/ PollCycle
    \/ \E replies \in HubFetches(HubListings) : PollMarketsSendThrows(replies)
    \/ \E c \in Clients : Connection(c)
    \/ \E c \in Clients : BeginClose(c)
    \/ \E c \in Clients : Close(c)

SpecThrow == InitThrow /\ [][NextThrow]_vars

\* the bootstrap with candlesticks whose period ends when the source says:
\* before the window asked for, within it, or after the time of the request
\* (the period in progress)
SeedOffsets == {0 - WINDOW_MS - TickMs, 0 - TickMs, TickMs}

SeedCandles(t) ==
    {[open |-> o, close |-> c, end_period_ts |-> (t + d) \div 1000] :
        o \in CandleOpens, c \in CandleCloses, d \in SeedOffsets}

\* "A" has up to MaxCandles candles, "B" has none
SeedReplies(ticker, t) ==
    IF ticker = "A"
    THEN {CandlesOf(candlesticks) :
              candlesticks \in UNION {[1..n -> SeedCandles(t)] : n \in 0..MaxCandles}}
    ELSE {CandlesOf(<<>>)}

NextSeed ==
    \/ Tick
    \/ \E listing \in Listings(Instruments, StartupPriors) :
           InitialFetch(<<PageOf(listing, FALSE)>>)
    \/ /\ phase = "boot"
       /\ \E response \in SeedReplies(Head(bootQueue).ticker, now) :
              BootstrapStep(response)

SpecSeed == InitBoot /\ [][NextSeed]_vars

\* the start-up fetch against a source that answers page after page.  A page
\* holds one active market, PAGE_SIZE active markets (limit=200) or one
\* market that is not active; a source answers with pages of one kind that
\* all name a next page, as many as StreamPages or fewer, and then with a
\* last page or a failure
PAGE_SIZE == 200

StreamPages == PAGE_LIMIT + 1

PageKinds ==
    {<<HubEntry("B", 1, 26, 0)>>,
     [k \in 1..PAGE_SIZE |-> HubEntry("C", 1, 97, 0)],
     <<HubEntry("B", 0, 26, 0)>>}

PageStreams ==
    {[k \in 1..n |-> PageOf(markets, TRUE)] \o <<last>> :
        n \in 0..StreamPages, markets \in PageKinds,
        last \in {PageOf(<<HubEntry("B", 1, 26, 0)>>, FALSE)}
                     \cup {PageFailed(reply) : reply \in Failures}}

NextPages ==
    \/ CycleTick
    \/ \E stream \in PageStreams : InitialFetch(PagesRead(<<>>, 0, stream))

SpecPages == InitCycle /\ [][NextPages]_vars

\* start-up and poll cycles when the candlestick source has no candle for
\* any market: a series is seeded from the prior price of the listing (the
\* fallback) or holds the single sample
NextPrior ==
    \/ Tick
    \/ \E listing \in Listings(Instruments, StartupPriors) :
           InitialFetch(<<PageOf(listing, FALSE)>>)
    \/ BootstrapStep(CandlesOf(<<>>))
    \/ \E listing \in Listings(OpenAtPoll, PollPriors) :
           PollMarkets(<<PageOf(listing, FALSE)>>)

SpecPrior == InitBoot /\ [][NextPrior]_vars

(***************************************************************************)
(* Properties.                                                               *)
(***************************************************************************)
\* the alert a tier's Map holds for a ticker
Stored(alerts, t, i) == alerts[t][Get(alerts[t], i)].value

FiredAt(alert) == GetTime(alert.timestamp)

\* the step is a run of pollMarkets, a run of cleanupAlerts, one iteration of
\* the bootstrap loop
PollStep == pollDue /\ ~pollDue'

CleanupStep == cleanupDue /\ ~cleanupDue'

BootStep == phase = "boot" /\ bootQueue' # bootQueue

\* the step classified the price of instrument i
Classified(i) ==
    \/ PollStep /\ priceHistory'[i] # priceHistory[i]
    \/ BootStep /\ Head(bootQueue).ticker = i /\ lastCheck'[i] # 0 - 1

AlertsOf(messages) == SelectSeq(messages, LAMBDA m : m.type = "alert")

Live(c) == c \in wsClients /\ readyState[c] = WS_OPEN

\* the alerts the step inserted into a tier collection
Inserted ==
    UNION {{triggeredAlerts'[t][k].value :
                k \in {j \in 1..Len(triggeredAlerts'[t]) :
                          ~Has(triggeredAlerts[t], triggeredAlerts'[t][j].key)}} :
           t \in Tiers}

TimeOrdered(h) == \A k \in 1..(Len(h) - 1) : h[k].timestamp <= h[k + 1].timestamp

ThresholdTable == [t \in Tiers |-> FRatio(t, 1)]

\* the stored percent change reaches the threshold of tier t and no higher one
InBand(alert, t) ==
    /\ FGeq(FAbs(alert.priceChange), ThresholdTable[t])
    /\ \A u \in Tiers : u > t => ~FGeq(FAbs(alert.priceChange), ThresholdTable[u])

\* the tier by exact arithmetic on the cents: |cur - ref| / ref against 20%, 10%, 5%
ExactTier(cur, ref) ==
    LET d == IF cur >= ref THEN cur - ref ELSE ref - cur
    IN  IF 100 * d >= 20 * ref THEN 20
        ELSE IF 100 * d >= 10 * ref THEN 10
        ELSE IF 100 * d >= 5 * ref THEN 5
        ELSE 0

\* C1: once instrument i has an entry in tier t, a bootstrap step or poll
\* cycle that classifies i as tier t again inserts nothing, pushes nothing
\* about i to any client and leaves the stored alert as it was.
SuppressionStep ==
    \A i \in Instruments, t \in Tiers :
        (Has(triggeredAlerts[t], i) /\ Classified(i) /\ lastCheck'[i] = t) =>
            /\ Has(triggeredAlerts'[t], i)
            /\ Stored(triggeredAlerts', t, i) = Stored(triggeredAlerts, t, i)
            /\ Cardinality({k \in 1..Len(triggeredAlerts'[t]) :
                               triggeredAlerts'[t][k].key = i}) = 1
            /\ \A c \in Clients : \A k \in 1..Len(sent'[c]) :
                   sent'[c][k].type = "alert" => sent'[c][k].data.ticker # i

IdempotentSuppression == [][SuppressionStep]_vars

\* C1 witness: a poll cycle has just classified an instrument as the tier it
\* is registered in, with another magnitude than the stored one; the stored
\* alert is the earlier one and nothing was pushed.
SuppressedReclassification ==
    \E i \in Instruments, t \in Tiers :
        /\ Has(triggeredAlerts[t], i)
        /\ lastCheck[i] = t
        /\ Len(priceHistory[i]) >= 2
        /\ priceHistory[i][Len(priceHistory[i])].timestamp = now
        /\ FiredAt(Stored(triggeredAlerts, t, i)) < now
        /\ Stored(triggeredAlerts, t, i).priceChange #
               PercentChange(priceHistory[i][Len(priceHistory[i])].price,
                             priceHistory[i][1].price)
        /\ \E c \in Clients : Live(c) /\ sent[c] = <<>>

\* C2: in every step, each client that is open receives exactly the alerts
\* the step inserted, each once, and no other client receives an alert.
PushStep ==
    \A c \in Clients :
        LET pushed == AlertsOf(sent'[c])
        IN  IF Live(c)
            THEN /\ {pushed[k].data : k \in 1..Len(pushed)} = Inserted
                 /\ Len(pushed) = Cardinality(Inserted)
            ELSE pushed = <<>>

PushExactlyOnInsert == [][PushStep]_vars

\* C2 witness: an open client has just been sent one alert, the one a tier
\* collection now holds.
AlertPushed ==
    \E c \in Clients :
        /\ Live(c)
        /\ Len(sent[c]) = 1
        /\ sent[c][1].type = "alert"
        /\ Has(triggeredAlerts[sent[c][1].data.tier], sent[c][1].data.ticker)
        /\ Stored(triggeredAlerts, sent[c][1].data.tier, sent[c][1].data.ticker)
               = sent[c][1].data

\* C3: after the history update of a poll cycle every retained sample is
\* inside the window; a series that was in time order stays in time order,
\* and what was trimmed is a prefix of it, all older than the window.
RecordStep ==
    \A i \in Instruments :
        (PollStep /\ priceHistory'[i] # priceHistory[i]) =>
            LET before == priceHistory[i]
                after == priceHistory'[i]
                whole == Append(before, after[Len(after)])
            IN  /\ Len(after) >= 1
                /\ after[Len(after)].timestamp = now
                /\ \A k \in 1..Len(after) : after[k].timestamp >= now - WINDOW_MS
                /\ (TimeOrdered(before) /\ \A k \in 1..Len(before) : before[k].timestamp <= now)
                       => /\ TimeOrdered(after)
                          /\ \E n \in 0..Len(before) :
                                 /\ after = SubSeq(whole, n + 1, Len(whole))
                                 /\ \A k \in 1..n : before[k].timestamp < now - WINDOW_MS

WindowedOrderedHistory == [][RecordStep]_vars

\* C3 witness: an instrument bootstrapped with an alert has been polled after
\* its start-up samples left the window; its series is in time order, from a
\* sample exactly at the cutoff to the one just recorded.
TrimmedSeries ==
    \E i \in Instruments, t \in Tiers :
        /\ Has(triggeredAlerts[t], i)
        /\ FiredAt(Stored(triggeredAlerts, t, i)) = BootTime
        /\ now - WINDOW_MS > BootTime
        /\ Len(priceHistory[i]) >= 2
        /\ TimeOrdered(priceHistory[i])
        /\ priceHistory[i][1].timestamp = now - WINDOW_MS
        /\ priceHistory[i][Len(priceHistory[i])].timestamp = now

\* C4: whichever code classifies a pair of prices, the tier is the one exact
\* arithmetic gives for |current - reference| / reference against 20%, 10% and
\* 5%, and the direction of an alert is up iff current > reference.
ClassificationExact ==
    verdict.route # "none" =>
        /\ verdict.tier = ExactTier(quote[1], quote[2])
        /\ verdict.tier # 0 =>
               verdict.direction = (IF quote[1] > quote[2] THEN "up" ELSE "down")

\* C5: a run of cleanup leaves in every tier exactly the alerts fired at or
\* after now - WINDOW_MS, unchanged and in their order.
CleanupStepExact ==
    CleanupStep =>
        \A t \in Tiers :
            triggeredAlerts'[t] =
                SelectSeq(triggeredAlerts[t],
                          LAMBDA en : FiredAt(en.value) >= now - WINDOW_MS)

CleanupExact == [][CleanupStepExact]_vars

\* C5 witness: cleanup has run; an alert fired exactly at the cutoff is still
\* registered, and the alert of an instrument that fired at start-up is gone.
CleanupKeptCutoff ==
    /\ phase = "run"
    /\ ~cleanupDue
    /\ \E i \in Instruments, t \in Tiers :
           /\ Has(triggeredAlerts[t], i)
           /\ FiredAt(Stored(triggeredAlerts, t, i)) = now - WINDOW_MS
    /\ \E i \in Instruments :
           /\ lastCheck[i] > 0
           /\ priceHistory[i][Len(priceHistory[i])].timestamp = BootTime
           /\ BootTime < now - WINDOW_MS
           /\ \A t \in Tiers : ~Has(triggeredAlerts[t], i)

\* C6: an entry of a tier collection stays, with the same alert, through every
\* step but a run of cleanup that finds it older than the window.
RemovalStep ==
    \A t \in Tiers, i \in Instruments :
        Has(triggeredAlerts[t], i) =>
            \/ /\ Has(triggeredAlerts'[t], i)
               /\ Stored(triggeredAlerts', t, i) = Stored(triggeredAlerts, t, i)
            \/ /\ CleanupStep
               /\ ~Has(triggeredAlerts'[t], i)
               /\ FiredAt(Stored(triggeredAlerts, t, i)) < now - WINDOW_MS

RemovedOnlyByCleanup == [][RemovalStep]_vars

\* C6 witness: the price of an instrument went up by a tier and came back to
\* its reference within the window; the latest poll cycle found no tier and
\* the instrument is still registered.
RevertedStillRegistered ==
    \E i \in Instruments, t \in Tiers :
        /\ Has(triggeredAlerts[t], i)
        /\ lastCheck[i] = 0
        /\ Len(priceHistory[i]) >= 3
        /\ priceHistory[i][Len(priceHistory[i])].timestamp = now
        /\ priceHistory[i][Len(priceHistory[i])].price = priceHistory[i][1].price
        /\ FiredAt(Stored(triggeredAlerts, t, i)) >= now - WINDOW_MS

\* C7, as stated: an instrument is in tier t's collection iff its latest
\* classification reached t's threshold and the stored alert has not expired.
MembershipIff ==
    \A i \in Instruments, t \in Tiers :
        Has(triggeredAlerts[t], i) <=>
            /\ lastCheck[i] >= t
            /\ Has(triggeredAlerts[t], i) =>
                   FiredAt(Stored(triggeredAlerts, t, i)) >= now - WINDOW_MS

\* C7, amended: every entry of tier t's collection holds an alert of its
\* instrument whose percent change reaches t's threshold and no higher one;
\* a step that classifies an instrument as tier t leaves it in t's collection;
\* and after a run of cleanup no entry is older than the window.
MembershipStep ==
    /\ \A t \in Tiers : \A k \in 1..Len(triggeredAlerts'[t]) :
           /\ triggeredAlerts'[t][k].value.ticker = triggeredAlerts'[t][k].key
           /\ triggeredAlerts'[t][k].value.tier = t
           /\ InBand(triggeredAlerts'[t][k].value, t)
    /\ \A i \in Instruments, t \in Tiers :
           (Classified(i) /\ lastCheck'[i] = t) => Has(triggeredAlerts'[t], i)
    /\ CleanupStep =>
           \A t \in Tiers : \A k \in 1..Len(triggeredAlerts'[t]) :
               FiredAt(triggeredAlerts'[t][k].value) >= now - WINDOW_MS

MembershipOnFiring == [][MembershipStep]_vars

\* C7 witness: an instrument is registered in a tier although its latest
\* classification found no tier and the stored alert is older than the window.
StaleMembership ==
    \E i \in Instruments, t \in Tiers :
        /\ Has(triggeredAlerts[t], i)
        /\ lastCheck[i] = 0
        /\ FiredAt(Stored(triggeredAlerts, t, i)) < now - WINDOW_MS

\* C8: the alerts one instrument holds in two tiers were fired at different
\* times, that is on different cycles.
TiersFiredOnDifferentCycles ==
    \A i \in Instruments, t \in Tiers, u \in Tiers :
        (t # u /\ Has(triggeredAlerts[t], i) /\ Has(triggeredAlerts[u], i)) =>
            FiredAt(Stored(triggeredAlerts, t, i)) # FiredAt(Stored(triggeredAlerts, u, i))

\* C8 witness: an instrument is in the 5% and in the 20% collection at once,
\* neither alert being older than the window.
InFiveAndTwenty ==
    \E i \in Instruments :
        /\ Has(triggeredAlerts[5], i)
        /\ Has(triggeredAlerts[20], i)
        /\ FiredAt(Stored(triggeredAlerts, 5, i)) >= now - WINDOW_MS
        /\ FiredAt(Stored(triggeredAlerts, 20, i)) >= now - WINDOW_MS

\* C9: a step other than cleanup leaves every entry of every tier in place
\* and unchanged; the entries it adds to tier t are alerts of tier t for
\* instruments the step classified as tier t.
RegistrationFrameStep ==
    ~CleanupStep =>
        \A t \in Tiers :
            /\ Len(triggeredAlerts'[t]) >= Len(triggeredAlerts[t])
            /\ \A k \in 1..Len(triggeredAlerts[t]) :
                   triggeredAlerts'[t][k] = triggeredAlerts[t][k]
            /\ \A k \in (Len(triggeredAlerts[t]) + 1)..Len(triggeredAlerts'[t]) :
                   /\ Classified(triggeredAlerts'[t][k].key)
                   /\ lastCheck'[triggeredAlerts'[t][k].key] = t
                   /\ triggeredAlerts'[t][k].value.tier = t
                   /\ ~Has(triggeredAlerts[t], triggeredAlerts'[t][k].key)

RegistrationFrame == [][RegistrationFrameStep]_vars

\* C9 witness: an instrument registered in the 5% tier has just been
\* registered in the 20% tier as well, next to another instrument's entry
\* there; all three entries are in place.
RegisteredBesideOthers ==
    \E i \in Instruments, j \in Instruments :
        /\ i # j
        /\ Has(triggeredAlerts[20], j)
        /\ Has(triggeredAlerts[5], i)
        /\ Has(triggeredAlerts[20], i)
        /\ FiredAt(Stored(triggeredAlerts, 20, i)) = now
        /\ FiredAt(Stored(triggeredAlerts, 5, i)) < now
        /\ FiredAt(Stored(triggeredAlerts, 20, j)) < now

\* C10: any two consecutive outbound calls are at least MIN_REQUEST_INTERVAL
\* apart.
MinimumSpacing ==
    \A k \in 1..(Len(calls) - 1) : calls[k + 1] - calls[k] >= MIN_REQUEST_INTERVAL

\* the step settled an outbound attempt of caller c
Settled(c) == pc[c] \in {"fetching", "refetching"} /\ pc'[c] # pc[c]

\* the reply the step settled the attempt of caller c with
Settlement(c) ==
    IF returned'.caller = c THEN returned'.tries[Len(returned'.tries)].reply
    ELSE tries'[c][Len(tries'[c])].reply

\* the step sent an outbound attempt of caller c
Attempted(c) == Len(tries'[c]) = Len(tries[c]) + 1

\* C11: one call of rateLimitedFetch makes at most two outbound attempts; the
\* second is made only after the first was answered 429 and only when the
\* wait of RETRY_WAIT_MS is over; a 429 followed by a success on the retry
\* returns that successful response after exactly one retry.
BoundedRetryStep ==
    /\ Len(calls') - Len(calls) = Cardinality({c \in Callers : Attempted(c)})
    /\ \A c \in Callers :
        /\ Len(tries'[c]) <= 2
        /\ Attempted(c) /\ Len(tries[c]) = 1 =>
            /\ RateLimited(tries[c][1].reply)
            /\ clock' >= tries[c][1].answeredAt + RETRY_WAIT_MS
            /\ calls'[Len(calls')] >= tries[c][1].answeredAt + RETRY_WAIT_MS
        /\ returned'.caller = c =>
            /\ Len(returned'.tries) \in {1, 2}
            /\ calls' = calls
            /\ Len(returned'.tries) = 2 /\ returned'.tries[2].reply.ok =>
                /\ RateLimited(returned'.tries[1].reply)
                /\ returned'.result = returned'.tries[2].reply
                /\ returned'.result.ok
                /\ pc'[c] = "idle"

BoundedRetry == [][BoundedRetryStep]_vars

\* a call was answered 429, retried once and returned the success of the retry
RetriedThenSucceeded ==
    /\ returned.caller # "none"
    /\ Len(returned.tries) = 2
    /\ RateLimited(returned.tries[1].reply)
    /\ returned.tries[2].answeredAt >= returned.tries[1].answeredAt + RETRY_WAIT_MS
    /\ returned.result = Reply(200)

\* C12: when the first attempt and the retry are both answered 429, the call
\* ends there with the throttling outcome: the caller gets the second 429
\* response, which is not ok, and no further attempt is made.
ThrottledTwiceStep ==
    \A c \in Callers :
        pc[c] = "refetching" /\ Settled(c) /\ RateLimited(Settlement(c)) =>
            /\ returned'.caller = c
            /\ RateLimited(returned'.result)
            /\ ~returned'.result.ok
            /\ Len(returned'.tries) = 2
            /\ RateLimited(returned'.tries[1].reply)
            /\ pc'[c] = "idle"
            /\ tries'[c] = <<>>
            /\ calls' = calls

RateLimitedOutcome == [][ThrottledTwiceStep]_vars

\* the call of fetchActiveMarkets was answered 429 twice and returned the 429
ThrottledTwice ==
    /\ returned.caller = "engine"
    /\ Len(returned.tries) = 2
    /\ RateLimited(returned.tries[1].reply)
    /\ RateLimited(returned.tries[2].reply)
    /\ RateLimited(returned.result)

\* the reply is a response that is neither 2xx nor 429, or a network failure
Unretried(reply) == reply.thrown \/ (~reply.ok /\ reply.status # 429)

\* C13: a response that is neither 2xx nor 429, and a network failure, end the
\* call at the attempt they answer: they are handed to the caller and no
\* further attempt is made; on the first attempt the call made exactly one.
\* Only an attempt answered 429 is ever followed by another.
NotRetriedStep ==
    \A c \in Callers :
        /\ Settled(c) /\ Unretried(Settlement(c)) =>
            /\ returned'.caller = c
            /\ returned'.result = Settlement(c)
            /\ pc[c] = "fetching" => Len(returned'.tries) = 1
            /\ pc'[c] = "idle"
            /\ tries'[c] = <<>>
            /\ calls' = calls
        /\ returned'.caller = c =>
            \A k \in 1..(Len(returned'.tries) - 1) : RateLimited(returned'.tries[k].reply)

NeverRetried == [][NotRetriedStep]_vars

\* a call, not the first one, met a network failure on its only attempt and
\* threw it on to its caller
FailedAfterOneAttempt ==
    /\ returned.caller # "none"
    /\ Len(returned.tries) = 1
    /\ returned.result = NetworkError
    /\ Len(calls) >= 2

\* the alerts among the messages, by their data
AlertData(messages) ==
    [k \in 1..Len(AlertsOf(messages)) |-> AlertsOf(messages)[k].data]

\* s and r hold the same elements, each as often
Permutation(s, r) ==
    /\ Len(s) = Len(r)
    /\ \A x \in {s[k] : k \in 1..Len(s)} \cup {r[k] : k \in 1..Len(r)} :
           Cardinality({k \in 1..Len(s) : s[k] = x}) =
               Cardinality({k \in 1..Len(r) : r[k] = x})

\* the absolute percent changes of the alerts do not increase along s
Descending(s) ==
    \A k \in 1..(Len(s) - 1) :
        FGeq(FAbs(s[k].priceChange), FAbs(s[k + 1].priceChange))

\* s is r with some elements left out
RECURSIVE Embeds(_, _)
Embeds(s, r) ==
    IF s = <<>> THEN TRUE
    ELSE IF r = <<>> THEN FALSE
    ELSE IF Head(s) = Head(r) THEN Embeds(Tail(s), Tail(r))
    ELSE Embeds(s, Tail(r))

Tickers(alerts) == [k \in 1..Len(alerts) |-> alerts[k].ticker]

\* the markets of the pages a fetchActiveMarkets retrieved, before the filter
RECURSIVE ListedMarkets(_)
ListedMarkets(replies) ==
    IF replies = <<>> THEN <<>>
    ELSE Head(replies).markets \o ListedMarkets(Tail(replies))

\* C14: the response of GET /api/alerts holds, for each of the three tiers,
\* exactly the alerts of that tier's collection, ordered by descending
\* absolute percent change.
SnapshotSorted ==
    served.status = 200 =>
        \A t \in Tiers :
            /\ Permutation(served.body[t], Values(triggeredAlerts[t]))
            /\ Descending(served.body[t])

\* tier 20 holds +22, -35 and +21.25 per cent in this order of insertion and
\* the response lists them as -35, +22, +21.25
SortedThree ==
    /\ served.status = 200
    /\ Tickers(Values(triggeredAlerts[20])) = <<"A", "B", "C">>
    /\ Tickers(served.body[20]) = <<"B", "A", "C">>
    /\ served.body[20][1].direction = "down"
    /\ served.body[20][2].direction = "up"

\* C15: the initial message a connection is sent holds what GET /api/alerts
\* returns for the same registry, in the same order.
InitialIsSnapshot ==
    \A c \in Clients : \A k \in 1..Len(sent[c]) :
        sent[c][k].type = "initial" => sent[c][k].data = Snapshot

\* C16: the first message sent on every connection is the initial message
\* with every alert of the registry as of the connect; alerts are pushed on
\* a connection only after it, whatever the order of connects, bootstrap
\* iterations and poll cycles.
SnapshotFirst ==
    \A c \in Clients :
        /\ firstMessage[c] \in {"none", "initial"}
        /\ c \in wsClients => firstMessage[c] = "initial"
        /\ \A k \in 1..Len(sent[c]) :
            /\ sent[c][k].type = "initial" =>
                /\ sent[c] = <<Message("initial", [t \in Tiers |-> Values(triggeredAlerts[t])])>>
                /\ broadcast = <<>>
            /\ sent[c][k].type = "alert" =>
                /\ firstMessage[c] = "initial"
                /\ sent[c][1].type = "alert"

\* a connection made before the bootstrap loop has ended, which was sent the
\* initial message then, is pushed the alert a later iteration fired
PushedAfterSnapshot ==
    \E c \in Clients :
        /\ phase = "boot"
        /\ AlertData(sent[c]) # <<>>
        /\ AlertData(sent[c]) = broadcast
        /\ firstMessage[c] = "initial"

\* C17: the alerts a connection is sent by a handler are in the order in
\* which the handler broadcast them.
FifoPerConnection ==
    \A c \in Clients : Embeds(AlertData(sent[c]), broadcast)

\* one poll cycle broadcast two alerts, "C" before "B", and a connection was
\* sent both in that order
TwoInOrder ==
    \E c \in Clients :
        /\ Len(broadcast) = 2
        /\ Tickers(broadcast) = <<"C", "B">>
        /\ Tickers(AlertData(sent[c])) = <<"C", "B">>

\* C18: a broadcast while a connection of the Set is closing or closed sends
\* that connection nothing, sends every open connection each alert, and the
\* alerts broadcast stay in the registry.
ClosedIsSkipped ==
    broadcast # <<>> =>
        /\ \A c \in Clients :
               IF Live(c) THEN AlertData(sent[c]) = broadcast
               ELSE sent[c] = <<>>
        /\ \A k \in 1..Len(broadcast) :
            /\ Has(triggeredAlerts[broadcast[k].tier], broadcast[k].ticker)
            /\ Stored(triggeredAlerts, broadcast[k].tier, broadcast[k].ticker) = broadcast[k]

\* an alert was broadcast while the older of two connections was closing: the
\* newer one was sent it
BroadcastPastClosing ==
    \E c \in Clients, d \in Clients :
        /\ c < d
        /\ c \in wsClients /\ readyState[c] = WS_CLOSING
        /\ Live(d)
        /\ broadcast # <<>>
        /\ sent[c] = <<>>
        /\ AlertData(sent[d]) = broadcast

\* the listing of this step's fetch holds instrument i untraded or unpriced
ListedInactive(i) ==
    \E k \in 1..Len(ListedMarkets(fetched')) :
        /\ ListedMarkets(fetched')[k].ticker = i
        /\ ListedMarkets(fetched')[k].volume = 0 \/ ListedMarkets(fetched')[k].last_price = 0

\* C19: a poll cycle whose listing holds an instrument with zero volume or a
\* zero last price leaves that instrument's series and its registry entries
\* as they were and pushes nothing about it.
SkippedStep ==
    PollStep =>
        \A i \in DOMAIN priceHistory :
            ListedInactive(i) =>
                /\ priceHistory'[i] = priceHistory[i]
                /\ lastCheck'[i] = lastCheck[i]
                /\ \A t \in Tiers :
                    /\ Has(triggeredAlerts'[t], i) <=> Has(triggeredAlerts[t], i)
                    /\ Has(triggeredAlerts[t], i) =>
                           Stored(triggeredAlerts', t, i) = Stored(triggeredAlerts, t, i)
                /\ \A k \in 1..Len(broadcast') : broadcast'[k].ticker # i
                /\ \A c \in Clients : \A k \in 1..Len(sent'[c]) :
                       sent'[c][k].type = "alert" => sent'[c][k].data.ticker # i

InactiveSkipped == [][SkippedStep]_vars

\* a poll cycle listed "B" traded but unpriced (with an ask) beside "C": "C"
\* was recorded and fired, "B" has no sample of this cycle
SkippedBesideAlert ==
    /\ phase = "run"
    /\ ~pollDue
    /\ \E k \in 1..Len(ListedMarkets(fetched)) :
           /\ ListedMarkets(fetched)[k].ticker = "B"
           /\ ListedMarkets(fetched)[k].volume > 0
           /\ ListedMarkets(fetched)[k].last_price = 0
           /\ ListedMarkets(fetched)[k].yes_ask > 0
    /\ Tickers(broadcast) = <<"C">>
    /\ priceHistory["C"][Len(priceHistory["C"])].timestamp = now
    /\ priceHistory["B"][Len(priceHistory["B"])].timestamp < now

\* what a poll cycle without alert side effects leaves alone; the timers
\* stay set
NoSideEffects ==
    /\ UNCHANGED <<priceHistory, triggeredAlerts, lastCheck, wsClients, readyState>>
    /\ sent' = NoneSent
    /\ broadcast' = <<>>
    /\ phase' = "run"

\* C20: a poll cycle in which a page request of the listing fails (an error
\* or a response that is not ok) has no alert side effects: history and
\* registry are unchanged, nothing is pushed, polling goes on.
FailedFetchStep ==
    PollStep /\ (\E k \in 1..Len(fetched') : ~fetched'[k].reply.ok) => NoSideEffects

FailedFetchNoEffects == [][FailedFetchStep]_vars

\* C20, as the code has it: a poll cycle whose first page request fails has
\* no alert side effects and polling goes on; when a later page request
\* fails, polling goes on as well and the cycle processes the markets of the
\* pages read before it.
FailedFirstPageStep ==
    /\ PollStep /\ fetched' # <<>> /\ ~fetched'[1].reply.ok => NoSideEffects
    /\ PollStep /\ (\E k \in 1..Len(fetched') : ~fetched'[k].reply.ok) =>
        /\ phase' = "run"
        /\ \A i \in DOMAIN priceHistory :
               priceHistory'[i] # priceHistory[i] =>
                   \E k \in 1..Len(ListedMarkets(fetched')) :
                       ListedMarkets(fetched')[k].ticker = i

FailedFirstPageNoEffects == [][FailedFirstPageStep]_vars

\* a poll cycle after the bootstrap met a network failure on its first page:
\* the registry still holds the alert of the bootstrap and nothing was sent
FailedCycle ==
    /\ phase = "run"
    /\ ~pollDue
    /\ now > BootTime
    /\ Len(fetched) = 1
    /\ fetched[1].reply = NetworkError
    /\ Has(triggeredAlerts[20], "A")
    /\ priceHistory["A"] # <<>>
    /\ broadcast = <<>>
    /\ \E c \in Clients : Live(c) /\ sent[c] = <<>>

\* the market of this bootstrap iteration, its current and its prior price
BootMarket == Head(bootQueue)

BootCurrent == OrElse(BootMarket.last_price, BootMarket.yes_ask)

BootPrior == OrElse(BootMarket.previous_price, BootMarket.previous_yes_bid)

\* the candlestick request of this step yielded no series: it failed, or the
\* response held no candle
NoSeries(replies) ==
    /\ replies # <<>>
    /\ replies[1].reply.thrown \/ ~replies[1].reply.ok \/ replies[1].candlesticks = <<>>

\* the registry's entries for instrument i
EntriesOf(alerts, i) ==
    [t \in Tiers |-> SelectSeq(alerts[t], LAMBDA en : en.key = i)]

\* the samples of a series that the window ending at t retains
Retained(h, t) == SelectSeq(h, LAMBDA x : x.timestamp >= t - WINDOW_MS)

\* C22: the bootstrap loop runs once, over every market of the initial
\* listing in turn; the poll and the cleanup timers are set when it has
\* ended, so that no poll cycle and no cleanup runs, or is due, before.
BootOnceStep ==
    /\ PollStep \/ CleanupStep => phase = "run" /\ bootQueue = <<>>
    /\ pollDue' \/ cleanupDue' => phase = "run" /\ bootQueue = <<>>
    /\ BootStep => bootQueue' = Tail(bootQueue) /\ ~pollDue /\ ~cleanupDue
    /\ phase = "boot" /\ phase' = "run" => bootQueue' = <<>>
    /\ phase = "run" => phase' = "run" /\ bootQueue' = <<>>
    /\ phase = "boot" => phase' \in {"boot", "run"}

BootstrapBeforeTimers == [][BootOnceStep]_vars

\* the first poll cycle and the first cleanup are due, after the bootstrap of
\* the three listed instruments
TimersAfterBootstrap ==
    /\ phase = "run"
    /\ pollDue /\ cleanupDue
    /\ now = BootTime + TickMs
    /\ \A i \in HubInstruments :
           priceHistory[i] # <<>> /\ priceHistory[i][Len(priceHistory[i])].timestamp = BootTime

\* C23: the alert a bootstrap iteration registers, or its absence, is what
\* checkVolatility's classification yields on the series the iteration
\* seeded: the reference is the oldest retained sample, the extremes are
\* those of the retained window.
BootAsPollStep ==
    BootStep /\ priceHistory'[BootMarket.ticker] # <<>> =>
        LET h == priceHistory'[BootMarket.ticker]
            alert == Classify(BootMarket.ticker, h[Len(h)].price, Retained(h, now), now)
        IN  Inserted = IF alert = NoAlert THEN {} ELSE {alert}

BootClassifiesAsPoll == [][BootAsPollStep]_vars

\* C24: a bootstrap iteration whose candlestick request yields no series
\* seeds the two samples {prior price at now - window, current price at now}
\* if and only if the listing's prior price is nonzero and differs from the
\* current price; otherwise it seeds the one sample of the current price and
\* registers no alert.
SeedingStep ==
    BootStep /\ NoSeries(fetchedCandles') =>
        IF BootPrior # 0 /\ BootPrior # BootCurrent
        THEN priceHistory'[BootMarket.ticker] =
                 <<[price |-> BootPrior, timestamp |-> now - WINDOW_MS],
                   [price |-> BootCurrent, timestamp |-> now]>>
        ELSE /\ priceHistory'[BootMarket.ticker] =
                    <<[price |-> BootCurrent, timestamp |-> now]>>
             /\ Inserted = {}
             /\ \A t \in Tiers : ~Has(triggeredAlerts'[t], BootMarket.ticker)

SeedingCases == [][SeedingStep]_vars

\* the candlestick request for "A" returned no candle: "A" is seeded with its
\* prior price of 40 at the start of the window and its current price of 43
SeededFromPrior ==
    /\ fetchedCandles = <<CandlesOf(<<>>)>>
    /\ priceHistory["A"] = <<[price |-> 40, timestamp |-> now - WINDOW_MS],
                             [price |-> 43, timestamp |-> now]>>
    /\ Has(triggeredAlerts[5], "A")

\* C25: a bootstrap iteration whose candlestick request fails or returns no
\* candle goes on to the next market, leaves the series and the registry
\* entries of every other instrument as they were, and seeds a series for its
\* own instrument; a series, once seeded, is never empty again.
ToleratesStep ==
    /\ BootStep /\ NoSeries(fetchedCandles') =>
        /\ bootQueue' = Tail(bootQueue)
        /\ phase' = IF Tail(bootQueue) = <<>> THEN "run" ELSE "boot"
        /\ priceHistory'[BootMarket.ticker] # <<>>
        /\ \A j \in DOMAIN priceHistory \ {BootMarket.ticker} :
            /\ priceHistory'[j] = priceHistory[j]
            /\ lastCheck'[j] = lastCheck[j]
            /\ EntriesOf(triggeredAlerts', j) = EntriesOf(triggeredAlerts, j)
    /\ BootStep => BootCurrent # 0 /\ priceHistory'[BootMarket.ticker] # <<>>
    /\ \A i \in DOMAIN priceHistory : priceHistory[i] # <<>> => priceHistory'[i] # <<>>

BootstrapTolerates == [][ToleratesStep]_vars

\* the candlestick request for "A" met a network failure: "A" and "B", which
\* was bootstrapped before it, are seeded and "B" holds its alert
SeededDespiteFailure ==
    /\ fetchedCandles = <<CandlesFailed(NetworkError)>>
    /\ phase = "run"
    /\ priceHistory["A"] # <<>>
    /\ priceHistory["B"] = <<[price |-> 40, timestamp |-> now - WINDOW_MS],
                             [price |-> 50, timestamp |-> now]>>
    /\ Has(triggeredAlerts[20], "B")

\* C26: a poll cycle's check of an instrument whose series holds fewer than
\* two samples after recording yields no alert: nothing is registered or
\* broadcast for the instrument.
FewSamplesStep ==
    PollStep =>
        \A i \in DOMAIN priceHistory :
            priceHistory'[i] # priceHistory[i] /\ Len(priceHistory'[i]) < 2 =>
                /\ lastCheck'[i] = 0
                /\ EntriesOf(triggeredAlerts', i) = EntriesOf(triggeredAlerts, i)
                /\ \A k \in 1..Len(broadcast') : broadcast'[k].ticker # i

NoAlertOnFewSamples == [][FewSamplesStep]_vars

\* a poll cycle checked "A" at 50 when the samples of its bootstrap, which
\* fired from 40 to 43, had left the window: the one sample yields no alert
AgedOutUnfired ==
    /\ ~pollDue
    /\ fetched # <<>>
    /\ now = BootTime + 3 * TickMs
    /\ priceHistory["A"] = <<[price |-> 50, timestamp |-> now]>>
    /\ lastCheck["A"] = 0
    /\ Has(triggeredAlerts[5], "A")
    /\ Stored(triggeredAlerts, 5, "A").currentPrice = 43
    /\ FiredAt(Stored(triggeredAlerts, 5, "A")) = BootTime
    /\ ~Has(triggeredAlerts[20], "A") /\ ~Has(triggeredAlerts[10], "A")

\* C27: no alert of the registry has the reference price 0; a poll cycle's
\* check of a series whose oldest retained sample has price 0 yields no
\* alert, and a bootstrap iteration whose reference price is 0 classifies
\* nothing.
ZeroReferenceStep ==
    /\ \A t \in Tiers : \A k \in 1..Len(triggeredAlerts'[t]) :
           triggeredAlerts'[t][k].value.oldPrice # 0
    /\ PollStep =>
        \A i \in DOMAIN priceHistory :
            priceHistory'[i] # priceHistory[i] /\ priceHistory'[i][1].price = 0 =>
                /\ lastCheck'[i] = 0
                /\ EntriesOf(triggeredAlerts', i) = EntriesOf(triggeredAlerts, i)
    /\ BootStep /\ fetchedCandles' # <<>> /\ ~NoSeries(fetchedCandles') =>
        LET first == fetchedCandles'[1].candlesticks[1]
        IN  first.open = 0 /\ first.close = 0 =>
                /\ lastCheck'[BootMarket.ticker] = lastCheck[BootMarket.ticker]
                /\ Inserted = {}

ZeroReferenceGuard == [][ZeroReferenceStep]_vars

\* a poll cycle checked "A" at 50 on a series whose oldest retained sample is
\* a candle that closed at 0: three samples, no alert
ZeroReferenceUnfired ==
    /\ ~pollDue
    /\ fetched # <<>>
    /\ now > BootTime
    /\ Len(priceHistory["A"]) = 3
    /\ priceHistory["A"][1].price = 0
    /\ priceHistory["A"][3] = [price |-> 50, timestamp |-> now]
    /\ lastCheck["A"] = 0

\* C28: an alert a poll cycle registers has the price of the oldest sample
\* retained after trimming as its reference, the price just recorded as its
\* current price, the percent change of the two, and the least and the
\* greatest price of the retained samples as its extremes, which enclose the
\* reference and the current price.
WindowAlertStep ==
    PollStep =>
        \A alert \in Inserted :
            LET h == priceHistory'[alert.ticker]
                prices == {h[k].price : k \in 1..Len(h)}
            IN  /\ h = Retained(Append(priceHistory[alert.ticker], h[Len(h)]), now)
                /\ h[Len(h)].timestamp = now
                /\ alert.oldPrice = h[1].price
                /\ alert.currentPrice = h[Len(h)].price
                /\ alert.priceChange = PercentChange(h[Len(h)].price, h[1].price)
                /\ alert.minPrice \in prices /\ \A q \in prices : alert.minPrice <= q
                /\ alert.maxPrice \in prices /\ \A q \in prices : alert.maxPrice >= q
                /\ alert.minPrice <= alert.oldPrice /\ alert.oldPrice <= alert.maxPrice
                /\ alert.minPrice <= alert.currentPrice /\ alert.currentPrice <= alert.maxPrice

AlertFromWindow == [][WindowAlertStep]_vars

\* a poll cycle fired for "A" at 40 against the candle's close of 43, with the
\* 50 recorded in between as the greatest price of the window
WindowExtremes ==
    \E k \in 1..Len(triggeredAlerts[5]) :
        LET alert == triggeredAlerts[5][k].value
        IN  /\ ~pollDue
            /\ FiredAt(alert) = now
            /\ alert.ticker = "A"
            /\ alert.oldPrice = 43
            /\ alert.currentPrice = 40
            /\ alert.minPrice = 40
            /\ alert.maxPrice = 50
            /\ Len(priceHistory["A"]) = 3

\* the markets of the pages this step's listing fetch read that are active
ActiveListed == SelectSeq(ListedMarkets(fetched'), LAMBDA m : m.volume > 0 /\ m.last_price > 0)

\* instrument i, listed at price p, is recorded by this step and fires in the
\* tier its change against the oldest retained sample reaches
RecordedAndFired(i, p) ==
    LET sample == [price |-> p, timestamp |-> now]
        h == priceHistory'[i]
    IN  /\ h = Retained(Append(priceHistory[i], sample), now)
        /\ h[Len(h)] = sample
        /\ Len(h) >= 2 /\ h[1].price # 0 /\ Tier(p, h[1].price) # 0 =>
            /\ Has(triggeredAlerts'[Tier(p, h[1].price)], i)
            /\ ~Has(triggeredAlerts[Tier(p, h[1].price)], i) =>
                   \E k \in 1..Len(broadcast') :
                       /\ broadcast'[k].ticker = i
                       /\ broadcast'[k].oldPrice = h[1].price
                       /\ broadcast'[k].currentPrice = p

\* C21: a poll cycle whose listing fetch fails leaves the series, the
\* registry and the timers as they were; poll cycles are called again
\* afterwards at every interval, and a later cycle whose fetch succeeds
\* records every active market and fires its alerts against the samples
\* retained, as a cycle does that no failure preceded.
RecoveryStep ==
    /\ PollStep /\ Unfetched(fetched') =>
           UNCHANGED <<priceHistory, triggeredAlerts, phase, now, cleanupDue, bootQueue>>
    /\ PollStep /\ ~Unfetched(fetched') =>
           \A k \in 1..Len(ActiveListed) :
               RecordedAndFired(ActiveListed[k].ticker, ActiveListed[k].last_price)
    /\ missed => missed'

PollingRecovers ==
    /\ [][RecoveryStep]_vars
    /\ (missed /\ now < CycleEnd) ~> pollDue
    /\ pollDue ~> ~pollDue

\* the first poll cycle failed to fetch its listing; the second fetched "B"
\* at 26 and fired against the 40 of the bootstrap
RecoveredAfterFailure ==
    /\ missed
    /\ ~pollDue
    /\ fetched # <<>> /\ ~Unfetched(fetched)
    /\ now = BootTime + 2 * TickMs
    /\ priceHistory["B"] = <<[price |-> 40, timestamp |-> BootTime],
                             [price |-> 26, timestamp |-> now]>>
    /\ Has(triggeredAlerts[20], "B")
    /\ Stored(triggeredAlerts, 20, "B").oldPrice = 40
    /\ FiredAt(Stored(triggeredAlerts, 20, "B")) = now

\* C29: a step changes the series or the registry only as one whole run of
\* the loop of pollMarkets, one run of cleanupAlerts or one iteration of the
\* bootstrap loop, never as two of them; polls and cleanups run only once
\* the bootstrap has ended, and no poll or cleanup has been called while it
\* runs.
ExclusionStep ==
    /\ ~(PollStep /\ CleanupStep) /\ ~(PollStep /\ BootStep) /\ ~(CleanupStep /\ BootStep)
    /\ priceHistory' # priceHistory \/ triggeredAlerts' # triggeredAlerts =>
           PollStep \/ CleanupStep \/ BootStep
    /\ CleanupStep =>
        /\ phase = "run"
        /\ priceHistory' = priceHistory
        /\ \A t \in Tiers : Embeds(triggeredAlerts'[t], triggeredAlerts[t])
    /\ PollStep =>
        /\ phase = "run"
        /\ \A t \in Tiers : Embeds(triggeredAlerts[t], triggeredAlerts'[t])
        /\ \A k \in 1..Len(ActiveListed) :
               LET h == priceHistory'[ActiveListed[k].ticker]
               IN  h # <<>> /\ h[Len(h)].timestamp = now
    /\ BootStep =>
        /\ ~pollDue /\ ~cleanupDue
        /\ \A t \in Tiers : Embeds(triggeredAlerts[t], triggeredAlerts'[t])

MutualExclusion == [][ExclusionStep]_vars

\* both timers fired at the same moment: cleanupAlerts has run while the
\* poll cycle awaits its listing, on a registry that holds the bootstrap's
\* alert
CleanupWhilePollAwaits ==
    /\ phase = "run"
    /\ now > BootTime
    /\ pollDue
    /\ ~cleanupDue
    /\ Has(triggeredAlerts[20], "A")

\* what a report shows is whole: each alert is in its tier once, its
\* instrument has its series and has left the bootstrap's queue
Whole(data) ==
    \A t \in Tiers : \A k \in 1..Len(data[t]) :
        /\ data[t][k].tier = t
        /\ \A j \in 1..Len(data[t]) : data[t][j].ticker = data[t][k].ticker => j = k
        /\ priceHistory[data[t][k].ticker] # <<>>
        /\ \A q \in 1..Len(bootQueue) : bootQueue[q].ticker # data[t][k].ticker

\* C30: the response of GET /api/alerts and the initial message of a
\* connection hold the alerts of the registry as it is between two handlers,
\* each update whole, and the read leaves the series and the registry as they
\* were.
ReadStep ==
    /\ served'.status = 200 =>
        /\ UNCHANGED <<priceHistory, triggeredAlerts>>
        /\ \A t \in Tiers : Permutation(served'.body[t], Values(triggeredAlerts[t]))
        /\ Whole(served'.body)
    /\ \A c \in Clients : \A k \in 1..Len(sent'[c]) :
           sent'[c][k].type = "initial" =>
               /\ UNCHANGED <<priceHistory, triggeredAlerts>>
               /\ \A t \in Tiers :
                      Permutation(sent'[c][k].data[t], Values(triggeredAlerts[t]))
               /\ Whole(sent'[c][k].data)

AtomicReads == [][ReadStep]_vars

\* GET /api/alerts was answered between two iterations of the bootstrap loop:
\* the alert of "A" is shown, "B" and "C" are still to be bootstrapped
ReadDuringBootstrap ==
    /\ served.status = 200
    /\ phase = "boot"
    /\ Len(bootQueue) = 2
    /\ Tickers(served.body[20]) = <<"A">>

\* the entry of (i, t) is older than the window
AgedOut(i, t) ==
    /\ Has(triggeredAlerts[t], i)
    /\ FiredAt(Stored(triggeredAlerts, t, i)) < now - WINDOW_MS

\* the step registered an alert for (i, t), fired now, and handed it to
\* broadcastAlert once
Refired(i, t) ==
    /\ Has(triggeredAlerts'[t], i)
    /\ FiredAt(Stored(triggeredAlerts', t, i)) = now
    /\ Cardinality({k \in 1..Len(broadcast') :
                       broadcast'[k] = Stored(triggeredAlerts', t, i)}) = 1

\* C31, as stated: a poll cycle that classifies instrument i as tier t while
\* the entry of (i, t) is older than the window registers a new alert for
\* (i, t) and pushes it.
RefireStep ==
    \A i \in Instruments, t \in Tiers :
        (PollStep /\ Classified(i) /\ lastCheck'[i] = t /\ AgedOut(i, t)) => Refired(i, t)

RefiresOnceAgedOut == [][RefireStep]_vars

\* C31, amended: an entry of (i, t), however old, stays until a run of cleanup
\* removes it, and while it stays a poll cycle that classifies i as tier t
\* leaves it as it is and pushes nothing for (i, t); a run of cleanup removes
\* the entry once it is older than the window; a poll cycle that classifies i
\* as tier t when the tier holds no entry for i registers a new alert and
\* pushes it.
StickyStep ==
    \A i \in Instruments, t \in Tiers :
        /\ (PollStep /\ Classified(i) /\ lastCheck'[i] = t) =>
               IF Has(triggeredAlerts[t], i)
               THEN /\ Has(triggeredAlerts'[t], i)
                    /\ Stored(triggeredAlerts', t, i) = Stored(triggeredAlerts, t, i)
                    /\ \A k \in 1..Len(broadcast') :
                           ~(broadcast'[k].ticker = i /\ broadcast'[k].tier = t)
               ELSE Refired(i, t)
        /\ (CleanupStep /\ AgedOut(i, t)) => ~Has(triggeredAlerts'[t], i)
        /\ (Has(triggeredAlerts[t], i) /\ ~Has(triggeredAlerts'[t], i)) =>
               CleanupStep /\ AgedOut(i, t)

StickyUntilCleanup == [][StickyStep]_vars

\* C31 witness: the alert an instrument fired at start-up is older than the
\* window and the cleanup that is due has not run; the poll cycle of this
\* moment classified the instrument as the same tier, and the old alert is
\* still the one registered and nothing was pushed.
StaleEntrySuppresses ==
    \E i \in Instruments, t \in Tiers :
        /\ AgedOut(i, t)
        /\ FiredAt(Stored(triggeredAlerts, t, i)) = BootTime
        /\ cleanupDue
        /\ ~pollDue
        /\ lastCheck[i] = t
        /\ Len(priceHistory[i]) >= 2
        /\ priceHistory[i][Len(priceHistory[i])].timestamp = now
        /\ Tier(priceHistory[i][Len(priceHistory[i])].price, priceHistory[i][1].price) = t
        /\ broadcast = <<>>

\* the markets the step's poll cycle had to process: those its listing
\* yielded with a price
ToProcess ==
    SelectSeq(FetchActiveMarkets(fetched'),
              LAMBDA market : OrElse(market.last_price, market.yes_ask) # 0)

\* the series are in time order and within the window of their latest
\* sample; every registry entry is an alert of its key and its tier
Uncorrupted(history, alerts) ==
    /\ \A i \in DOMAIN history :
           /\ TimeOrdered(history[i])
           /\ \A k \in 1..Len(history[i]) :
                  history[i][k].timestamp >= history[i][Len(history[i])].timestamp - WINDOW_MS
    /\ \A t \in Tiers : \A k \in 1..Len(alerts[t]) :
           /\ alerts[t][k].value.ticker = alerts[t][k].key
           /\ alerts[t][k].value.tier = t
           /\ \A j \in 1..Len(alerts[t]) : alerts[t][j].key = alerts[t][k].key => j = k

\* C32: whatever is raised while one instrument of a poll cycle is processed,
\* every instrument the cycle's listing yielded is still processed (its price
\* is recorded in this cycle), and history and registry stay well formed.
IsolationStep ==
    PollStep =>
        /\ \A k \in 1..Len(ToProcess) :
               LET h == priceHistory'[ToProcess[k].ticker]
               IN  h # <<>> /\ h[Len(h)].timestamp = now
        /\ Uncorrupted(priceHistory', triggeredAlerts')

FailureIsolated == [][IsolationStep]_vars

\* the step called broadcastAlert: it attempted a delivery to the clients
Delivery == broadcast' # <<>>

\* C33, as stated: a connection that is no longer open stays in the Set until
\* a delivery is attempted, and that attempt removes it; nothing else does.
PruneStep ==
    \A c \in Clients :
        /\ (c \in wsClients /\ c \notin wsClients') => (Delivery /\ readyState[c] # WS_OPEN)
        /\ (c \in wsClients /\ readyState[c] # WS_OPEN /\ Delivery) => c \notin wsClients'

PrunedOnFailedDelivery == [][PruneStep]_vars

\* C33, amended: a connection leaves the Set in the handler of its 'close'
\* event and in no other step; a step that attempts a delivery, failed or
\* not, leaves the Set as it is and sends nothing to a connection that is not
\* open; the Set holds exactly the connections whose 'close' event has not
\* fired.
CloseStep ==
    /\ \A c \in Clients :
        /\ (c \in wsClients /\ c \notin wsClients') =>
               /\ readyState[c] # 0 /\ readyState'[c] = 0
               /\ ~Delivery
        /\ (readyState[c] # 0 /\ readyState'[c] = 0) => c \notin wsClients'
        /\ (Delivery /\ readyState[c] # WS_OPEN) => sent'[c] = <<>>
        /\ c \in wsClients <=> readyState[c] # 0
    /\ Delivery => wsClients' = wsClients

PrunedOnClose == [][CloseStep]_vars

\* C33 witness: a poll cycle has just broadcast an alert while a connection
\* was closing: it was sent nothing and it is still in the Set
ClosingKeptInSet ==
    \E c \in Clients :
        /\ c \in wsClients
        /\ readyState[c] = WS_CLOSING
        /\ phase = "run"
        /\ ~pollDue
        /\ fetched # <<>>
        /\ broadcast # <<>>
        /\ sent[c] = <<>>

\* the moments of the model at which an alert can fire so that it is older
\* than the window before time ends
FireTimes == {f \in {BootTime + k * TickMs : k \in 0..MaxTicks} : f < EndTime - WINDOW_MS}

\* tier t holds for instrument i the alert fired at f
RegisteredAt(i, t, f) ==
    /\ Has(triggeredAlerts[t], i)
    /\ FiredAt(Stored(triggeredAlerts, t, i)) = f

ExpiryStep ==
    CleanupStep =>
        \A i \in Instruments, t \in Tiers : AgedOut(i, t) => ~Has(triggeredAlerts'[t], i)

\* C34: a run of cleanup leaves no alert older than the window registered;
\* and, as time advances and the cleanup that is due runs, every alert
\* registered while the timers are set (and fired early enough to age out
\* before time ends) is eventually no longer registered.
EventualExpiry ==
    /\ [][ExpiryStep]_vars
    /\ \A i \in Instruments, t \in Tiers, f \in FireTimes :
           (phase = "run" /\ now < EndTime /\ RegisteredAt(i, t, f)) ~> ~RegisteredAt(i, t, f)

\* C34 witness: "B", classified as tier 20 by the bootstrap and never polled,
\* is no longer registered after the cleanup that ran more than a window later
ExpiredAndGone ==
    /\ phase = "run"
    /\ ~cleanupDue
    /\ now > BootTime + WINDOW_MS
    /\ lastCheck["B"] = 20
    /\ priceHistory["B"][Len(priceHistory["B"])].timestamp = BootTime
    /\ ~Has(triggeredAlerts[20], "B")

\* C35: the series an iteration of the bootstrap stores is in time order and
\* holds no sample older than the window, whatever candlesticks the source
\* returned.
SeedStep ==
    BootStep =>
        LET h == priceHistory'[BootMarket.ticker]
        IN  h # priceHistory[BootMarket.ticker] =>
                /\ TimeOrdered(h)
                /\ \A k \in 1..Len(h) : h[k].timestamp >= now - WINDOW_MS

SeededWellFormed == [][SeedStep]_vars

\* C36: in every state each tier collection holds at most one entry per
\* instrument, and the alert under key i in tier t's collection is an alert of
\* instrument i, of tier t, whose absolute percent change is in t's band and
\* whose direction is up iff the percent change is positive.
RegistryWellFormed ==
    \A t \in Tiers : \A k \in 1..Len(triggeredAlerts[t]) :
        LET en == triggeredAlerts[t][k]
        IN  /\ \A j \in 1..Len(triggeredAlerts[t]) : triggeredAlerts[t][j].key = en.key => j = k
            /\ en.value.ticker = en.key
            /\ en.value.tier = t
            /\ InBand(en.value, t)
            /\ en.value.direction = "up" <=> FPos(en.value.priceChange)
            /\ en.value.direction \in {"up", "down"}

\* C36 witness: the 20% collection holds "A" and "B", both up, and the 5%
\* collection holds "A", down
ThreeWellFormed ==
    /\ Has(triggeredAlerts[20], "A")
    /\ Has(triggeredAlerts[20], "B")
    /\ Has(triggeredAlerts[5], "A")
    /\ Stored(triggeredAlerts, 20, "A").direction = "up"
    /\ Stored(triggeredAlerts, 20, "B").direction = "up"
    /\ Stored(triggeredAlerts, 5, "A").direction = "down"
    /\ FPos(Stored(triggeredAlerts, 20, "A").priceChange)
    /\ ~FPos(Stored(triggeredAlerts, 5, "A").priceChange)

\* the active markets of the first n replies
RECURSIVE Gathered(_, _)
Gathered(replies, n) ==
    IF n = 0 THEN <<>>
    ELSE Gathered(replies, n - 1)
             \o (IF replies[n].reply.ok THEN ActiveMarkets(replies[n].markets) ELSE <<>>)

\* a step of the start-up fetch
FetchStep == phase = "fetch" /\ phase' # "fetch"

PageStep ==
    FetchStep =>
        /\ Len(fetched') >= 1
        /\ Len(fetched') <= PAGE_LIMIT
        /\ \A k \in 1..(Len(fetched') - 1) :
               /\ ~fetched'[k].reply.thrown
               /\ fetched'[k].reply.ok
               /\ fetched'[k].cursor
               /\ Len(Gathered(fetched', k)) < MARKET_LIMIT
        /\ bootQueue' = Gathered(fetched', Len(fetched'))

\* C37: a universe fetch makes at most 10 page requests; it makes a further
\* request only after a page that was fetched, named a next page and left
\* fewer than 1000 instruments collected; and it returns the instruments of
\* the pages fetched, also when its last request failed.
PaginationBounded == [][PageStep]_vars

\* C37 witness: the source named a next page on every page; the fetch ended
\* after its tenth request with the ten instruments of these pages
StoppedAtPageLimit ==
    /\ phase = "boot"
    /\ Len(fetched) = PAGE_LIMIT
    /\ \A k \in 1..Len(fetched) : fetched[k].reply.ok /\ fetched[k].cursor
    /\ Len(bootQueue) = PAGE_LIMIT

\* how often a occurs in the sequence s
Occurs(s, a) == Cardinality({k \in 1..Len(s) : s[k] = a})

\* the alerts a registry holds
Registered(alerts) ==
    UNION {{alerts[t][k].value : k \in 1..Len(alerts[t])} : t \in Tiers}

\* the step connects c
Connects(c) == readyState[c] = 0 /\ readyState'[c] = WS_OPEN

\* c is open and in the Set before and after the step
StaysOpen(c) == Live(c) /\ c \in wsClients' /\ readyState'[c] = WS_OPEN

ExactlyOnceStep ==
    \A c \in Clients :
        /\ Connects(c) =>
               /\ Inserted = {}
               /\ Len(sent'[c]) = 1
               /\ sent'[c][1].type = "initial"
               /\ \A t \in Tiers :
                      /\ Len(sent'[c][1].data[t]) = Len(triggeredAlerts[t])
                      /\ \A k \in 1..Len(triggeredAlerts[t]) :
                             Occurs(sent'[c][1].data[t], triggeredAlerts[t][k].value) = 1
        /\ StaysOpen(c) =>
               /\ AlertsOf(sent'[c]) = sent'[c]
               /\ \A a \in Inserted : Occurs(AlertData(sent'[c]), a) = 1
               /\ \A k \in 1..Len(sent'[c]) :
                      /\ sent'[c][k].data \in Inserted
                      /\ sent'[c][k].data \notin Registered(triggeredAlerts)

\* C38: the initial message of a connection holds every alert registered at
\* the connect, each once, and the connect pushes none of them; while the
\* connection stays open, every alert a step inserts is pushed to it once in
\* that step, and nothing is pushed that the registry held before the step.
ExactlyOnceDelivery == [][ExactlyOnceStep]_vars

\* C38 witness: an open connection that was sent the initial message has just
\* been pushed the one alert this step registered, and the registry holds an
\* earlier alert as well, which was not pushed again
PushedOnceBesideEarlier ==
    \E c \in Clients :
        /\ Live(c)
        /\ firstMessage[c] = "initial"
        /\ Len(sent[c]) = 1
        /\ sent[c][1].type = "alert"
        /\ sent[c][1].data \in Registered(triggeredAlerts)
        /\ FiredAt(sent[c][1].data) = now
        /\ \E a \in Registered(triggeredAlerts) : FiredAt(a) < now

\* a series of two samples a window apart, as the fallback seeds it: the
\* prior price at now - WINDOW_MS and the current price at now
PriorSeeded(h) == Len(h) = 2 /\ h[1].timestamp = h[2].timestamp - WINDOW_MS

\* the step is a poll cycle that records a sample of instrument i
PollRecords(i) == PollStep /\ priceHistory'[i] # priceHistory[i]

\* the alerts of instrument i the step inserted
InsertedFor(i) == {a \in Inserted : a.ticker = i}

\* the statement of C39 as it is written: the poll cycle that records i
\* drops the sample of the prior price, and the oldest sample it keeps,
\* the reference of its classification, is the current price of the seeding
PriorStep ==
    \A i \in Instruments :
        (PollRecords(i) /\ PriorSeeded(priceHistory[i])) =>
            /\ \A k \in 1..Len(priceHistory'[i]) : priceHistory'[i][k] # priceHistory[i][1]
            /\ priceHistory'[i][1] = priceHistory[i][2]
            /\ \A a \in InsertedFor(i) : a.oldPrice = priceHistory[i][2].price

PriorReplacedByBootPrice == [][PriorStep]_vars

PriorDroppedStep ==
    \A i \in Instruments :
        (PollRecords(i) /\ PriorSeeded(priceHistory[i])) =>
            /\ \A k \in 1..Len(priceHistory'[i]) : priceHistory'[i][k] # priceHistory[i][1]
            /\ IF now - priceHistory[i][2].timestamp <= WINDOW_MS
               THEN /\ Len(priceHistory'[i]) = 2
                    /\ priceHistory'[i][1] = priceHistory[i][2]
                    /\ priceHistory'[i][2].timestamp = now
                    /\ \A a \in InsertedFor(i) : a.oldPrice = priceHistory[i][2].price
               ELSE /\ Len(priceHistory'[i]) = 1
                    /\ priceHistory'[i][1].timestamp = now
                    /\ lastCheck'[i] = 0
                    /\ InsertedFor(i) = {}

\* C39: the poll cycle that records an instrument seeded by the fallback
\* drops the sample of the prior price, so no poll cycle classifies against
\* it.  When that cycle runs no more than a window after the seeding, it
\* keeps the current price of the seeding as its oldest sample and
\* classifies against it; when it runs later, it drops that sample as well,
\* keeps the new sample only and classifies nothing.
PriorDroppedAtFirstPoll == [][PriorDroppedStep]_vars

\* C39 witness: instrument A was seeded by the fallback, which registered an
\* alert against the prior price; the first poll cycle to record A has just
\* registered a second alert, against the current price of the seeding
ReferenceIsBootPrice ==
    \E t \in Tiers, u \in Tiers :
        /\ Has(triggeredAlerts[t], "A") /\ Has(triggeredAlerts[u], "A")
        /\ Len(priceHistory["A"]) = 2
        /\ priceHistory["A"][2].timestamp = now
        /\ LET seeded == Stored(triggeredAlerts, t, "A")
               polled == Stored(triggeredAlerts, u, "A")
           IN  /\ FiredAt(seeded) = priceHistory["A"][1].timestamp
               /\ seeded.currentPrice = priceHistory["A"][1].price
               /\ seeded.oldPrice # seeded.currentPrice
               /\ FiredAt(polled) = now
               /\ FiredAt(seeded) < now
               /\ polled.oldPrice = seeded.currentPrice
               /\ polled.oldPrice # seeded.oldPrice
====
